---- MODULE Spec2Model ----
(***************************************************************************)
(* Tender requirement extraction and suitability scoring                   *)
(* (backend/readiness_scorer.py, backend/ai_services.py).                  *)
(*                                                                         *)
(* Representation.  A Python str is the sequence of its tokens: maximal    *)
(* runs of word characters (a word or a number) and single punctuation     *)
(* marks, on one line, a blank separating a token from the next word or    *)
(* number.  "" is << >>.  The token WS is a run of white space.  Substring *)
(* tests are made on token sequences, a token occurring inside a longer    *)
(* token being listed in ProperSubTokens.                                  *)
(* Python values are tagged records: None, PyStr, PyInt, PyDict, PyList; an  *)
(* attribute (or dict key) that an object does not have is Absent.         *)
(* A dict is the sequence of its <<key, value>> items in insertion order.  *)
(* Scores are exact rationals [n, d] (n/d, d > 0).                         *)
(***************************************************************************)
EXTENDS Integers, Sequences, FiniteSets, TLC

VARIABLES
    weights,            \* ReadinessScorer.weights
    industry_mappings,  \* ReadinessScorer.industry_mappings
    now,                \* datetime.utcnow(), in ticks since the caller's first call
    pc,                 \* "idle", or the operation whose call has completed
    input,              \* arguments of the last call
    outcome,            \* what the last call did: returned value or raised exception
    previous,           \* what the call before it did, if it had the same arguments
    heap,               \* the profile and requirements objects that concurrent calls are given
    threads             \* the call that each thread is in, and its local variables

vars == <<weights, industry_mappings, now, pc, input, outcome, previous, heap, threads>>

----------------------------------------------------------------------------
(* Bounds *)

MaxClock == 1   \* most clock ticks between a call and its repetition
MaxYears == 8   \* largest years_experience of a profile
MaxText == 2    \* longest enumerated tender text, in tokens
MaxRepeat == 290  \* most repetitions of a word in a long text
NThreads == 2   \* threads that call the shared instances
MaxSentences == 4   \* most sentences of an enumerated document

----------------------------------------------------------------------------
(* Python values *)

Absent == [t |-> "absent"]
None == [t |-> "none"]
PyStr(s) == [t |-> "str", s |-> s]
PyInt(n) == [t |-> "int", i |-> n]
PyDict(d) == [t |-> "dict", items |-> d]
PyList(l) == [t |-> "list", elems |-> l]

\* bool(x)
Truthy(x) ==
    CASE x.t = "none" -> FALSE
      [] x.t = "str" -> x.s # << >>
      [] x.t = "int" -> x.i # 0
      [] x.t = "dict" -> x.items # << >>
      [] x.t = "list" -> x.elems # << >>
      [] OTHER -> FALSE

\* x or default
OrElse(x, default) == IF Truthy(x) THEN x ELSE default

WS == "  "

\* the letter case of the tokens: <<token, lower-case form>>
LowerPairs ==
    { <<"CIDB", "cidb">>, <<"BBBEE", "bbbee">>, <<"SARS", "sars">>, <<"Gauteng", "gauteng">>,
      <<"Limpopo", "limpopo">>, <<"Construction", "construction">>, <<"General", "general">>,
      <<"Services", "services">>, <<"Grade", "grade">>, <<"GRADE", "grade">>,
      <<"Level", "level">>, <<"LEVEL", "level">>, <<"Tax", "tax">>, <<"TAX", "tax">>,
      <<"Clearance", "clearance">>, <<"CLEARANCE", "clearance">>, <<"Civil", "civil">>,
      <<"Security", "security">>, <<"Test", "test">>, <<"Co", "co">>,
      <<"Kwazulu-Natal", "kwazulu-natal">>, <<"KwaZulu-Natal", "kwazulu-natal">>,
      <<"Western", "western">>, <<"Cape", "cape">>, <<"It", "it">>, <<"Building", "building">>,
      <<"True", "true">>, <<"False", "false">>, <<"None", "none">>,
      <<"Required", "required">>, <<"Government", "government">>, <<"Office", "office">>,
      <<"Compliance", "compliance">> }

\* <<lower-case token, upper-case form>>
UpperPairs ==
    { <<"cidb", "CIDB">>, <<"bbbee", "BBBEE">>, <<"sars", "SARS">>, <<"tax", "TAX">>,
      <<"clearance", "CLEARANCE">>, <<"grade", "GRADE">>, <<"level", "LEVEL">> }

\* <<lower-case token, str.title() form>>: the first letter of every run of
\* letters in upper case, the other letters in lower case
TitlePairs ==
    { <<"gauteng", "Gauteng">>, <<"limpopo", "Limpopo">>, <<"kwazulu-natal", "Kwazulu-Natal">>,
      <<"western", "Western">>, <<"cape", "Cape">>, <<"eastern", "Eastern">>,
      <<"mpumalanga", "Mpumalanga">>, <<"north", "North">>, <<"west", "West">>,
      <<"free", "Free">>, <<"state", "State">>, <<"northern", "Northern">>,
      <<"general", "General">>, <<"services", "Services">>,
      <<"construction", "Construction">>, <<"security", "Security">>, <<"it", "It">>,
      <<"cleaning", "Cleaning">>, <<"transport", "Transport">>,
      <<"healthcare", "Healthcare">>, <<"education", "Education">>,
      <<"agriculture", "Agriculture">>, <<"it_services", "It_Services">> }

Lookup(pairs, t) ==
    IF \E q \in pairs : q[1] = t THEN (CHOOSE q \in pairs : q[1] = t)[2] ELSE t

\* str.lower(), str.upper() and str.title() of a token
LowerTok(t) == Lookup(LowerPairs, t)
UpperTok(t) == IF \E q \in UpperPairs : q[1] = LowerTok(t) THEN Lookup(UpperPairs, LowerTok(t)) ELSE t
TitleTok(t) == Lookup(TitlePairs, LowerTok(t))

Lower(s) == [i \in 1..Len(s) |-> LowerTok(s[i])]
Upper(s) == [i \in 1..Len(s) |-> UpperTok(s[i])]
Title(s) == [i \in 1..Len(s) |-> TitleTok(s[i])]

\* str.strip(): leading and trailing white space removed
RECURSIVE Strip(_)
Strip(s) ==
    IF s = << >> THEN s
    ELSE IF Head(s) = WS THEN Strip(Tail(s))
    ELSE IF s[Len(s)] = WS THEN Strip(SubSeq(s, 1, Len(s) - 1))
    ELSE s

\* pairs <<a, b>> of distinct tokens with a occurring inside b
ProperSubTokens ==
    { <<"year", "years">>, <<"it", "security">>, <<"it", "it_services">>,
      <<"services", "it_services">>, <<"form", "information">>,
      <<"health", "healthcare">>, <<"system", "systems">>,
      <<"Gauteng", "\"Gauteng\"">>, <<"requirement", "requirements">> }

SubTok(a, b) == a = b \/ <<a, b>> \in ProperSubTokens

\* needle in hay (str in str)
StrIn(needle, hay) ==
    \/ needle = << >>
    \/ /\ Len(needle) = 1
       /\ \E i \in 1..Len(hay) : SubTok(needle[1], hay[i])
    \/ /\ Len(needle) > 1
       /\ \E i \in 1..(Len(hay) - Len(needle) + 1) :
            SubSeq(hay, i, i + Len(needle) - 1) = needle

\* the numbers written in the texts: <<token, value>>
Numbers ==
    { <<"0", 0>>, <<"1", 1>>, <<"2", 2>>, <<"3", 3>>, <<"4", 4>>, <<"5", 5>>, <<"6", 6>>,
      <<"7", 7>>, <<"8", 8>>, <<"9", 9>>, <<"10", 10>>, <<"11", 11>>, <<"12", 12>>,
      <<"15", 15>>, <<"2024", 2024>>, <<"2500", 2500>>, <<"2500000", 2500000>> }

\* the token is a run of digits
IsDigits(tok) == \E n \in Numbers : n[1] = tok

\* int(tok)
ParseInt(tok) == (CHOOSE n \in Numbers : n[1] = tok)[2]

\* str(n), n >= 0
RECURSIVE IntStr(_)
IntStr(n) ==
    LET digit == <<"0", "1", "2", "3", "4", "5", "6", "7", "8", "9">>
    IN  IF n < 10 THEN digit[n + 1] ELSE IntStr(n \div 10) \o digit[(n % 10) + 1]

----------------------------------------------------------------------------
(* dict helpers *)

\* d.get(k, default) on a map whose absent keys are not in its domain
Get(m, k, default) == IF k \in DOMAIN m THEN m[k] ELSE default

\* index of key k in the item sequence d, 0 if none
KeyIndex(d, k) ==
    IF \E i \in 1..Len(d) : d[i][1] = k
    THEN CHOOSE i \in 1..Len(d) : d[i][1] = k
    ELSE 0

\* variant of d[k] = v: the entry is put before the entries that the dict has
DictSetFront(d, k, v) ==
    << <<k, v>> >> \o SelectSeq(d, LAMBDA item : item[1] # k)

\* d[k] = v on an insertion-ordered dict
DictSet(d, k, v) ==
    IF KeyIndex(d, k) = 0 THEN Append(d, <<k, v>>)
    ELSE [d EXCEPT ![KeyIndex(d, k)] = <<k, v>>]

\* d.update(e)
RECURSIVE DictUpdate(_, _)
DictUpdate(d, e) ==
    IF e = << >> THEN d
    ELSE DictUpdate(DictSet(d, Head(e)[1], Head(e)[2]), Tail(e))

Keys(d) == {d[i][1] : i \in 1..Len(d)}

----------------------------------------------------------------------------
(* rationals *)

Rat(n, d) == [n |-> n, d |-> d]

RECURSIVE GCD(_, _)
GCD(a, b) == IF b = 0 THEN a ELSE GCD(b, a % b)

\* the rational in lowest terms
Norm(x) == LET g == GCD(x.n, x.d) IN IF g = 0 THEN x ELSE Rat(x.n \div g, x.d \div g)

RatLeq(a, b) == a.n * b.d <= b.n * a.d
\* variant of RatMin: the bound is not applied
RatMinUnbounded(a, b) == a
RatMin(a, b) == IF RatLeq(a, b) THEN a ELSE b
RatAdd(a, b) ==
    LET l == (a.d \div GCD(a.d, b.d)) * b.d
    IN  Norm(Rat(a.n * (l \div a.d) + b.n * (l \div b.d), l))

\* variant of round: the next integer above the integer part
RoundUp(x) == x.n \div x.d + 1

\* round(x) of a non-negative rational: to the nearest integer, a tie going
\* to the even neighbour
Round(x) ==
    LET q == x.n \div x.d
        r == x.n % x.d
    IN  IF 2 * r < x.d THEN q
        ELSE IF 2 * r > x.d THEN q + 1
        ELSE IF q % 2 = 0 THEN q ELSE q + 1

\* variant of Min: the bound is not applied
MinUnbounded(a, b) == a
Min(a, b) == IF a <= b THEN a ELSE b

\* punctuation marks; a mark is written right after the token before it,
\* so that no str begins with a mark
Punct == {",", ".", "!", "?", ":", "+"}

\* the characters of the tokens lo..hi of a str, with the blank before each:
\* none before the first token, a punctuation mark or white space, nor
\* after white space
RECURSIVE SumLen(_, _, _)
SumLen(s, lo, hi) ==
    IF lo > hi THEN 0
    ELSE IF lo = hi
    THEN Len(s[lo]) + (IF lo = 1 \/ s[lo] \in Punct \cup {WS} \/ s[lo - 1] = WS THEN 0 ELSE 1)
    ELSE SumLen(s, lo, (lo + hi) \div 2) + SumLen(s, (lo + hi) \div 2 + 1, hi)

\* len(s) of a str
CharLen(s) == SumLen(s, 1, Len(s))

\* str(v)
StrOf(v) ==
    CASE v.t = "str" -> v.s
      [] v.t = "int" -> <<IntStr(v.i)>>
      [] OTHER -> <<"None">>

\* s.split(":"): the parts of s between its ":" tokens
RECURSIVE SplitColon(_)
SplitColon(s) ==
    IF \E i \in 1..Len(s) : s[i] = ":"
    THEN LET k == CHOOSE i \in 1..Len(s) : s[i] = ":" /\ \A j \in 1..(i - 1) : s[j] # ":"
         IN  <<SubSeq(s, 1, k - 1)>> \o SplitColon(SubSeq(s, k + 1, Len(s)))
    ELSE <<s>>

\* json.loads(s); a str that is not a JSON document raises JSONDecodeError
JsonLoads(s) ==
    CASE s = <<"[", "]">> -> [ok |-> TRUE, v |-> PyList(<< >>)]
      [] s = <<"{", "}">> -> [ok |-> TRUE, v |-> PyDict(<< >>)]
      [] s = <<"[", "\"Gauteng\"", "]">> -> [ok |-> TRUE, v |-> PyList(<< <<"Gauteng">> >>)]
      [] s = <<"{", "\"CIDB\"", ":", "\"Grade", "7\"", "}">> ->
            [ok |-> TRUE, v |-> PyDict(<< <<(<<"CIDB">>), PyStr(<<"Grade", "7">>)>> >>)]
      [] s = <<"5">> -> [ok |-> TRUE, v |-> PyInt(5)]
      [] OTHER -> [ok |-> FALSE]

----------------------------------------------------------------------------
(* ReadinessScorer: results of the helpers                                 *)
(* A helper returns Ok(value) or, when it raises, Raised(exception).       *)

Raised(e) == [ok |-> FALSE, error |-> e]
Ok(v) == [ok |-> TRUE, v |-> v]
Scored(score, checklist) == [ok |-> TRUE, score |-> score, checklist |-> checklist]

\* reading attribute a of the profile object
HasAttr(p, a) == p[a] # Absent
NoAttr(a) == Raised(<<"AttributeError", a>>)

\* ReadinessScorer.__init__: self.weights, in hundredths
InitWeights ==
    [certifications |-> 30, experience |-> 25, geographic_coverage |-> 20,
     sector_match |-> 15, capacity |-> 10]

\* ReadinessScorer.__init__: self.industry_mappings
InitIndustryMappings ==
    << <<"construction", <<"civil", "engineering", "building", "infrastructure", "roads", "bridges">> >>,
       <<"it_services", <<"technology", "software", "digital", "computer", "system", "network">> >>,
       <<"security", <<"protection", "guarding", "surveillance", "patrol", "monitoring">> >>,
       <<"cleaning", <<"sanitation", "hygiene", "maintenance", "janitorial", "waste">> >>,
       <<"transport", <<"logistics", "delivery", "shipping", "freight", "courier">> >>,
       <<"healthcare", <<"medical", "health", "hospital", "clinic", "patient">> >>,
       <<"education", <<"training", "school", "university", "learning", "curriculum">> >>,
       <<"agriculture", <<"farming", "crops", "livestock", "irrigation", "harvest">> >> >>

\* _get_company_certifications
get_company_certifications(p) ==
    IF ~HasAttr(p, "certifications") THEN NoAttr("certifications")
    ELSE LET certs == OrElse(p.certifications, PyDict(<< >>))
         IN  IF certs.t = "str"
             THEN IF JsonLoads(certs.s).ok THEN Ok(JsonLoads(certs.s).v)
                  ELSE Ok(PyDict(<< >>))
             ELSE Ok(certs)

\* _get_company_geographic_coverage
get_company_geographic_coverage(p) ==
    IF ~HasAttr(p, "geographic_coverage") THEN NoAttr("geographic_coverage")
    ELSE LET coverage == OrElse(p.geographic_coverage, PyList(<< >>))
         IN  IF coverage.t = "str"
             THEN IF JsonLoads(coverage.s).ok THEN Ok(JsonLoads(coverage.s).v)
                  ELSE Ok(PyList(<< >>))
             ELSE Ok(coverage)

\* index of the first item of the dict whose lower-cased key contains the
\* lower-cased name, 0 if none
FirstKeyWith(items, cert_name) ==
    LET hit(i) == StrIn(Lower(cert_name), Lower(items[i][1]))
    IN  IF \E i \in 1..Len(items) : hit(i)
        THEN CHOOSE i \in 1..Len(items) : hit(i) /\ \A j \in 1..(i - 1) : ~hit(j)
        ELSE 0

\* variant of _has_certification: the lowered name is looked up as a key of
\* the dict
has_certification_by_key(items, cert_name) ==
    LET hit(i) == Lower(cert_name) = items[i][1]
    IN  \E i \in 1..Len(items) :
           /\ hit(i)
           /\ Truthy(items[i][2])
           /\ Strip(StrOf(items[i][2])) \notin {<< >>, <<"false">>, <<"no">>, <<"0">>}

\* _has_certification, company_certs a dict
has_certification(items, cert_name) ==
    LET k == FirstKeyWith(items, cert_name)
    IN  IF k = 0 THEN FALSE
        ELSE /\ Truthy(items[k][2])
             /\ Strip(StrOf(items[k][2])) \notin {<< >>, <<"false">>, <<"no">>, <<"0">>}

\* _check_certification_level, company_certs a dict
check_certification_level(items, cert_name, required_level) ==
    LET k == FirstKeyWith(items, cert_name)
    IN  IF k = 0 THEN FALSE
        ELSE StrIn(Strip(Lower(required_level)), Lower(StrOf(items[k][2])))

\* the loop of _calculate_certification_score over the required certificates:
\* acc = [matched2 (twice matched_certs), checklist]
RECURSIVE CertLoop(_, _, _)
CertLoop(required_certs, items, acc) ==
    IF required_certs = << >> THEN acc
    ELSE LET required_cert == Head(required_certs)
             colon == StrIn(<<":">>, required_cert)
             cert_name == IF colon THEN Upper(Strip(SplitColon(required_cert)[1]))
                          ELSE Upper(required_cert)
             has_cert == has_certification(items, cert_name)
             level_matches ==
                 /\ has_cert
                 /\ colon
                 /\ check_certification_level(items, cert_name,
                                              Strip(SplitColon(required_cert)[2]))
             gain == IF has_cert THEN (IF level_matches THEN 3 ELSE 2) ELSE 0
         IN  CertLoop(Tail(required_certs), items,
                      [matched2 |-> acc.matched2 + gain,
                       checklist |-> DictSet(acc.checklist,
                                             <<"Has">> \o cert_name \o <<"certification">>,
                                             has_cert)])

\* _calculate_certification_score
calculate_certification_score(tender_req, p) ==
    LET required_certs == Get(tender_req, "required_certifications", << >>)
        company_certs == get_company_certifications(p)
    IN  IF ~company_certs.ok THEN company_certs
        ELSE IF required_certs = << >>
        THEN Scored(Rat(100, 1), << <<(<<"No", "certification", "requirements">>), TRUE>> >>)
        ELSE IF company_certs.v.t # "dict" THEN Raised(<<"AttributeError", "items">>)
        ELSE LET r == CertLoop(required_certs, company_certs.v.items,
                               [matched2 |-> 0, checklist |-> << >>])
                 total_required == Len(required_certs)
                 score == Rat(r.matched2 * 100, 2 * total_required)
             IN  Scored(Norm(RatMin(score, Rat(100, 1))), r.checklist)

\* company_profile.years_experience or 0
YearsOf(p) == OrElse(p.years_experience, PyInt(0)).i

\* variant of _calculate_experience_score: the bonus is added with no cap
calculate_experience_score_uncapped(tender_req, p) ==
    IF ~HasAttr(p, "years_experience") THEN NoAttr("years_experience")
    ELSE
    LET required_exp == Get(tender_req, "min_experience", 0)
        company_exp == YearsOf(p)
        checklist0 == << <<(<<"Meets", IntStr(required_exp), "years", "experience", "requirement">>),
                           company_exp >= required_exp>> >>
        base == IF company_exp >= required_exp THEN 100
                ELSE IF 10 * company_exp >= 8 * required_exp THEN 80
                ELSE IF 10 * company_exp >= 6 * required_exp THEN 60
                ELSE IF 10 * company_exp >= 4 * required_exp THEN 40
                ELSE 20
        exceeds == company_exp > required_exp + 5
    IN  IF required_exp = 0
        THEN Scored(Rat(100, 1), DictSet(checklist0, <<"No", "experience", "requirements">>, TRUE))
        ELSE IF exceeds
        THEN Scored(Rat(base + 10, 1),
                    DictSet(checklist0, <<"Exceeds", "experience", "requirements">>, TRUE))
        ELSE Scored(Rat(base, 1), checklist0)

\* variant of _calculate_experience_score: a company that exceeds the
\* requirement by more than five years loses ten points
calculate_experience_score_penalised(tender_req, p) ==
    IF ~HasAttr(p, "years_experience") THEN NoAttr("years_experience")
    ELSE
    LET required_exp == Get(tender_req, "min_experience", 0)
        company_exp == YearsOf(p)
        checklist0 == << <<(<<"Meets", IntStr(required_exp), "years", "experience", "requirement">>),
                           company_exp >= required_exp>> >>
        base == IF company_exp >= required_exp THEN 100
                ELSE IF 10 * company_exp >= 8 * required_exp THEN 80
                ELSE IF 10 * company_exp >= 6 * required_exp THEN 60
                ELSE IF 10 * company_exp >= 4 * required_exp THEN 40
                ELSE 20
        exceeds == company_exp > required_exp + 5
    IN  IF required_exp = 0
        THEN Scored(Rat(100, 1), DictSet(checklist0, <<"No", "experience", "requirements">>, TRUE))
        ELSE IF exceeds
        THEN Scored(Rat(base - 10, 1),
                    DictSet(checklist0, <<"Exceeds", "experience", "requirements">>, TRUE))
        ELSE Scored(Rat(base, 1), checklist0)

\* _calculate_experience_score
calculate_experience_score(tender_req, p) ==
    IF ~HasAttr(p, "years_experience") THEN NoAttr("years_experience")
    ELSE
    LET required_exp == Get(tender_req, "min_experience", 0)
        company_exp == YearsOf(p)
        checklist0 == << <<(<<"Meets", IntStr(required_exp), "years", "experience", "requirement">>),
                           company_exp >= required_exp>> >>
        base == IF company_exp >= required_exp THEN 100
                ELSE IF 10 * company_exp >= 8 * required_exp THEN 80
                ELSE IF 10 * company_exp >= 6 * required_exp THEN 60
                ELSE IF 10 * company_exp >= 4 * required_exp THEN 40
                ELSE 20
        exceeds == company_exp > required_exp + 5
    IN  IF required_exp = 0
        THEN Scored(Rat(100, 1), DictSet(checklist0, <<"No", "experience", "requirements">>, TRUE))
        ELSE IF exceeds
        THEN Scored(Rat(Min(base + 10, 100), 1),
                    DictSet(checklist0, <<"Exceeds", "experience", "requirements">>, TRUE))
        ELSE Scored(Rat(base, 1), checklist0)

\* variant of province in company_coverage: a company with any coverage
\* counts as operating in the province
InCoverageAnywhere(province, coverage) ==
    CASE coverage.t = "list" -> coverage.elems # << >>
      [] coverage.t = "dict" -> coverage.items # << >>
      [] OTHER -> coverage.s # << >>

\* province in company_coverage, for a list, a dict or a str
InCoverage(province, coverage) ==
    CASE coverage.t = "list" -> \E i \in 1..Len(coverage.elems) : coverage.elems[i] = province
      [] coverage.t = "dict" -> province \in Keys(coverage.items)
      [] OTHER -> StrIn(province, coverage.s)

\* the loop of _calculate_geographic_score over the required provinces
RECURSIVE GeoLoop(_, _, _)
GeoLoop(required_provinces, coverage, acc) ==
    IF required_provinces = << >> THEN acc
    ELSE LET province == Head(required_provinces)
             operates_there == InCoverage(province, coverage)
         IN  GeoLoop(Tail(required_provinces), coverage,
                     [matched |-> acc.matched + (IF operates_there THEN 1 ELSE 0),
                      checklist |-> DictSet(acc.checklist,
                                            <<"Operates", "in">> \o province,
                                            operates_there)])

\* _calculate_geographic_score
calculate_geographic_score(tender_req, p) ==
    LET required_provinces == Get(tender_req, "required_provinces", << >>)
        company_coverage == get_company_geographic_coverage(p)
    IN  IF ~company_coverage.ok THEN company_coverage
        ELSE IF required_provinces = << >>
        THEN Scored(Rat(100, 1), << <<(<<"No", "geographic", "requirements">>), TRUE>> >>)
        ELSE IF company_coverage.v.t \notin {"list", "dict", "str"}
        THEN Raised(<<"TypeError", "in">>)
        ELSE LET r == GeoLoop(required_provinces, company_coverage.v,
                              [matched |-> 0, checklist |-> << >>])
             IN  Scored(Norm(Rat(r.matched * 100, Len(required_provinces))), r.checklist)

\* (value or "").lower() of a str-or-None attribute
LowerOrEmpty(v) == IF v.t = "str" THEN Lower(v.s) ELSE << >>

\* the search of _calculate_sector_score for a related term: TRUE iff some
\* main sector whose name contains tender_sector has a related term that is
\* found in the company's services or sector
RelatedMatch(mappings, tender_sector, company_services, company_sector) ==
    \E i \in 1..Len(mappings) :
        /\ StrIn(tender_sector, <<mappings[i][1]>>)
        /\ \E j \in 1..Len(mappings[i][2]) :
              \/ StrIn(<<mappings[i][2][j]>>, company_services)
              \/ StrIn(<<mappings[i][2][j]>>, company_sector)

\* _calculate_sector_score
calculate_sector_score(tender_req, p, mappings) ==
    IF ~HasAttr(p, "industry_sector") THEN NoAttr("industry_sector")
    ELSE IF ~HasAttr(p, "services_provided") THEN NoAttr("services_provided")
    ELSE
    LET tender_sector == Lower(Get(tender_req, "industry_sector", << >>))
        company_sector == LowerOrEmpty(p.industry_sector)
        company_services == LowerOrEmpty(p.services_provided)
        direct_match == \/ StrIn(tender_sector, company_sector)
                        \/ StrIn(company_sector, tender_sector)
                        \/ StrIn(tender_sector, company_services)
        checklist1 == << <<(<<"Industry", "matches">> \o Title(tender_sector)), direct_match>> >>
    IN  IF tender_sector = << >>
        THEN Scored(Rat(50, 1), << <<(<<"No", "specific", "industry", "requirements">>), TRUE>> >>)
        ELSE IF direct_match THEN Scored(Rat(100, 1), checklist1)
        ELSE IF RelatedMatch(mappings, tender_sector, company_services, company_sector)
        THEN Scored(Rat(70, 1),
                    DictSet(checklist1, <<"Services", "related", "to">> \o Title(tender_sector), TRUE))
        ELSE Scored(Rat(30, 1), checklist1)

\* _calculate_capacity_score
calculate_capacity_score(p) ==
    IF ~HasAttr(p, "contact_email") THEN NoAttr("contact_email")
    ELSE IF Truthy(p.contact_email) /\ ~HasAttr(p, "contact_phone") THEN NoAttr("contact_phone")
    ELSE IF ~HasAttr(p, "services_provided") THEN NoAttr("services_provided")
    ELSE IF ~HasAttr(p, "company_name") THEN NoAttr("company_name")
    ELSE
    LET has_contact == Truthy(p.contact_email) /\ Truthy(p.contact_phone)
        has_detailed_services ==
            Truthy(p.services_provided) /\ CharLen(Strip(p.services_provided.s)) > 50
        has_company_name ==
            Truthy(p.company_name) /\ CharLen(Strip(p.company_name.s)) > 2
        score == (IF has_contact THEN 40 ELSE 0)
                 + (IF has_detailed_services THEN 30 ELSE 0)
                 + (IF has_company_name THEN 30 ELSE 0)
    IN  Scored(Rat(score, 1),
               << <<(<<"Has", "complete", "contact", "information">>), has_contact>>,
                  <<(<<"Has", "detailed", "services", "description">>), has_detailed_services>>,
                  <<(<<"Has", "valid", "company", "name">>), has_company_name>> >>)

\* the recommendation tiers
Excellent == [tier |-> "EXCELLENT MATCH"]
Strong == [tier |-> "STRONG SUITABILITY"]
Moderate == [tier |-> "MODERATE SUITABILITY"]
Limited == [tier |-> "LIMITED SUITABILITY"]
Low == [tier |-> "LOW SUITABILITY"]

\* sum(checklist.values())
MetCount(checklist) == Cardinality({i \in 1..Len(checklist) : checklist[i][2]})

\* variant of _generate_recommendation: the tier of the score alone
recommendation_by_score(score, checklist) ==
    IF score >= 90 THEN Excellent
    ELSE IF score >= 75 THEN Strong
    ELSE IF score >= 60 THEN Moderate
    ELSE IF score >= 40 THEN Limited
    ELSE Low

\* ReadinessScorer._generate_recommendation; success_rate >= k is
\* met / total * 100 >= k
generate_recommendation(score, checklist) ==
    LET met_requirements == MetCount(checklist)
        total_requirements == Len(checklist)
        rate_at_least(k) == /\ total_requirements > 0
                            /\ met_requirements * 100 >= k * total_requirements
    IN  IF score >= 90 /\ rate_at_least(90) THEN Excellent
        ELSE IF score >= 75 /\ rate_at_least(75) THEN Strong
        ELSE IF score >= 60 /\ rate_at_least(60) THEN Moderate
        ELSE IF score >= 40 THEN Limited
        ELSE Low

\* variant of _calculate_confidence_level: High from the score 70 on
calculate_confidence_level_from_70(score, checklist) ==
    LET total_items == Len(checklist)
        definitive_items == Len(checklist)
    IN  IF total_items = 0 THEN "Low"
        ELSE IF definitive_items * 10 >= 8 * total_items /\ score >= 70 THEN "High"
        ELSE IF definitive_items * 10 >= 6 * total_items THEN "Medium"
        ELSE "Low"

\* _calculate_confidence_level; every checklist value is a bool, so every
\* item is definitive
calculate_confidence_level(score, checklist) ==
    LET total_items == Len(checklist)
        definitive_items == Len(checklist)
    IN  IF total_items = 0 THEN "Low"
        ELSE IF definitive_items * 10 >= 8 * total_items /\ score > 70 THEN "High"
        ELSE IF definitive_items * 10 >= 6 * total_items THEN "Medium"
        ELSE "Low"

\* _get_error_response
get_error_response(error_message, clock) ==
    [suitability_score |-> 0,
     checklist |-> << <<(<<"Error", "occurred", "during", "scoring">>), FALSE>> >>,
     recommendation |-> [tier |-> "Unable to calculate score", message |-> error_message],
     scoring_breakdown |-> << >>,
     tender_requirements |-> << >>,
     confidence_level |-> "Low",
     calculated_at |-> clock,
     error |-> error_message]

\* score * weight, the weight in hundredths
Weighted(score, weight) == Norm(Rat(score.n * weight, score.d * 100))

\* the totals of the try block of calculate_suitability_score, from the
\* outcomes of the five category functions, the first exception ending
\* the block
CombineCategories(cert, exp, geo, sector, capacity, w) ==
    IF ~cert.ok THEN cert
    ELSE IF ~exp.ok THEN exp
    ELSE IF ~geo.ok THEN geo
    ELSE IF ~sector.ok THEN sector
    ELSE IF ~capacity.ok THEN capacity
    ELSE [ok |-> TRUE,
          score_breakdown |->
              << <<"certifications", cert.score>>, <<"experience", exp.score>>,
                 <<"geographic_coverage", geo.score>>, <<"sector_match", sector.score>>,
                 <<"capacity", capacity.score>> >>,
          total_score |->
              RatAdd(RatAdd(RatAdd(RatAdd(
                  Weighted(cert.score, w.certifications),
                  Weighted(exp.score, w.experience)),
                  Weighted(geo.score, w.geographic_coverage)),
                  Weighted(sector.score, w.sector_match)),
                  Weighted(capacity.score, w.capacity)),
          checklist |->
              DictUpdate(DictUpdate(DictUpdate(DictUpdate(DictUpdate(<< >>,
                  cert.checklist), exp.checklist), geo.checklist),
                  sector.checklist), capacity.checklist)]

\* the body of the try block of calculate_suitability_score: the five
\* categories in order
ScoreCategories(p, tender_req, w, mappings) ==
    CombineCategories(calculate_certification_score(tender_req, p),
                      calculate_experience_score(tender_req, p),
                      calculate_geographic_score(tender_req, p),
                      calculate_sector_score(tender_req, p, mappings),
                      calculate_capacity_score(p), w)

\* the result that calculate_suitability_score builds from the totals
ScoringResult(r, final_score, tender_req, clock) ==
    [suitability_score |-> final_score,
     checklist |-> r.checklist,
     recommendation |-> generate_recommendation(final_score, r.checklist),
     scoring_breakdown |-> r.score_breakdown,
     tender_requirements |-> tender_req,
     confidence_level |-> calculate_confidence_level(final_score, r.checklist),
     calculated_at |-> clock]

\* what calculate_suitability_score returns, r the outcome of its try block
ResultOf(r, tender_req, clock) ==
    IF ~r.ok THEN get_error_response(r.error, clock)
    ELSE ScoringResult(r, Min(Round(r.total_score), 100), tender_req, clock)

\* ReadinessScorer.calculate_suitability_score: what the call does, a
\* returned result or an exception that reaches the caller
calculate_suitability_score(p, tender_req, w, mappings, clock) ==
    IF ~HasAttr(p, "id") THEN [kind |-> "raised", exc |-> <<"AttributeError", "id">>]
    ELSE [kind |-> "returned",
          value |-> ResultOf(ScoreCategories(p, tender_req, w, mappings), tender_req, clock)]

----------------------------------------------------------------------------
(* AIService (ai_services.py): the company profile is a dict, a key it     *)
(* does not have being Absent                                               *)

\* company_profile.get(key, default)
ProfileGet(profile, key, default) == IF profile[key] = Absent THEN default ELSE profile[key]

\* cert.split(":")[0] if ":" in cert else cert
AICertName(cert) == IF StrIn(<<":">>, cert) THEN SplitColon(cert)[1] ELSE cert

\* any(cert_name.lower() in key.lower() for key in company_certs.keys())
AIHasCert(items, cert) ==
    \E i \in 1..Len(items) : StrIn(Lower(AICertName(cert)), Lower(items[i][1]))

\* AIService._calculate_certification_score
ai_calculate_certification_score(tender_req, profile) ==
    LET required_certs == Get(tender_req, "required_certifications", << >>)
        company_certs == ProfileGet(profile, "certifications", PyDict(<< >>))
        matched == Cardinality({i \in 1..Len(required_certs) :
                                    AIHasCert(company_certs.items, required_certs[i])})
    IN  IF required_certs = << >> THEN Ok(Rat(100, 1))
        ELSE IF company_certs.t # "dict" THEN Raised(<<"AttributeError", "keys">>)
        ELSE Ok(Norm(Rat(matched * 100, Len(required_certs))))

\* AIService._calculate_experience_score
ai_calculate_experience_score(tender_req, profile) ==
    LET required_exp == Get(tender_req, "experience_years", 0)
        company_exp == ProfileGet(profile, "years_experience", PyInt(0))
    IN  IF required_exp = 0 THEN Ok(Rat(100, 1))
        ELSE IF company_exp.t # "int" THEN Raised(<<"TypeError", ">=">>)
        ELSE IF company_exp.i >= required_exp THEN Ok(Rat(100, 1))
        ELSE Ok(Norm(RatMin(Rat(company_exp.i * 100, required_exp), Rat(80, 1))))

\* AIService._calculate_geographic_score
ai_calculate_geographic_score(tender_req, profile) ==
    LET required_provinces == Get(tender_req, "geographic_requirements", << >>)
        company_coverage == ProfileGet(profile, "geographic_coverage", PyList(<< >>))
        matched == Cardinality({i \in 1..Len(required_provinces) :
                                    InCoverage(required_provinces[i], company_coverage)})
    IN  IF required_provinces = << >> THEN Ok(Rat(100, 1))
        ELSE IF company_coverage.t \notin {"list", "dict", "str"} THEN Raised(<<"TypeError", "in">>)
        ELSE Ok(Norm(Rat(matched * 100, Len(required_provinces))))

\* AIService._calculate_industry_score
ai_calculate_industry_score(tender_req, profile) ==
    LET tender_industry == Lower(Get(tender_req, "industry_sector", << >>))
        company_industry == ProfileGet(profile, "industry_sector", PyStr(<< >>))
        company_services == ProfileGet(profile, "services_provided", PyStr(<< >>))
    IN  IF company_industry.t # "str" \/ company_services.t # "str"
        THEN Raised(<<"AttributeError", "lower">>)
        ELSE IF tender_industry = << >> THEN Ok(Rat(50, 1))
        ELSE IF \/ StrIn(tender_industry, Lower(company_industry.s))
                \/ StrIn(Lower(company_industry.s), tender_industry)
        THEN Ok(Rat(100, 1))
        ELSE IF StrIn(tender_industry, Lower(company_services.s)) THEN Ok(Rat(80, 1))
        ELSE Ok(Rat(30, 1))

\* company_profile.get("services_provided") and len(...) > 20
AIDetailedServices(profile) ==
    /\ Truthy(ProfileGet(profile, "services_provided", None))
    /\ CharLen(profile.services_provided.s) > 20

\* company_profile.get("contact_email") and company_profile.get("contact_phone")
AIHasContact(profile) ==
    /\ Truthy(ProfileGet(profile, "contact_email", None))
    /\ Truthy(ProfileGet(profile, "contact_phone", None))

\* AIService._calculate_capacity_score
ai_calculate_capacity_score(profile) ==
    Ok(Rat((IF AIHasContact(profile) THEN 40 ELSE 0)
           + (IF AIDetailedServices(profile) THEN 30 ELSE 0)
           + (IF Truthy(ProfileGet(profile, "company_name", None)) THEN 30 ELSE 0), 1))

\* the two loops of AIService._generate_checklist
RECURSIVE AICertChecklist(_, _, _)
AICertChecklist(required_certs, company_certs, acc) ==
    IF required_certs = << >> THEN acc
    ELSE AICertChecklist(Tail(required_certs), company_certs,
             DictSet(acc, <<"Has">> \o AICertName(Head(required_certs)) \o <<"certification">>,
                     AIHasCert(company_certs.items, Head(required_certs))))

RECURSIVE AIGeoChecklist(_, _, _)
AIGeoChecklist(required_provinces, coverage, acc) ==
    IF required_provinces = << >> THEN acc
    ELSE AIGeoChecklist(Tail(required_provinces), coverage,
             DictSet(acc, <<"Operates", "in">> \o Head(required_provinces),
                     InCoverage(Head(required_provinces), coverage)))

\* AIService._generate_checklist
ai_generate_checklist(tender_req, profile) ==
    LET required_certs == Get(tender_req, "required_certifications", << >>)
        company_certs == ProfileGet(profile, "certifications", PyDict(<< >>))
        required_exp == Get(tender_req, "experience_years", 0)
        company_exp == ProfileGet(profile, "years_experience", PyInt(0))
        required_provinces == Get(tender_req, "geographic_requirements", << >>)
        company_coverage == ProfileGet(profile, "geographic_coverage", PyList(<< >>))
    IN  IF required_certs # << >> /\ company_certs.t # "dict"
        THEN Raised(<<"AttributeError", "keys">>)
        ELSE IF company_exp.t # "int" THEN Raised(<<"TypeError", ">=">>)
        ELSE IF required_provinces # << >> /\ company_coverage.t \notin {"list", "dict", "str"}
        THEN Raised(<<"TypeError", "in">>)
        ELSE Ok(DictSet(DictSet(
                 AIGeoChecklist(required_provinces, company_coverage,
                     DictSet(AICertChecklist(required_certs, company_certs, << >>),
                             <<"Meets", IntStr(required_exp), "years", "experience", "requirement">>,
                             company_exp.i >= required_exp)),
                 <<"Has", "valid", "contact", "information">>, AIHasContact(profile)),
                 <<"Has", "detailed", "services", "description">>, AIDetailedServices(profile)))

\* AIService._generate_recommendation, of the weighted sum before rounding
ai_generate_recommendation(score) ==
    IF RatLeq(Rat(90, 1), score) THEN [tier |-> "Excellent match"]
    ELSE IF RatLeq(Rat(75, 1), score) THEN [tier |-> "Strong suitability"]
    ELSE IF RatLeq(Rat(60, 1), score) THEN [tier |-> "Moderate suitability"]
    ELSE IF RatLeq(Rat(40, 1), score) THEN [tier |-> "Limited suitability"]
    ELSE [tier |-> "Low suitability"]

\* the result of the except branch of calculate_readiness_score
AIErrorResult(e) ==
    [suitability_score |-> 0, checklist |-> << >>,
     recommendation |-> [tier |-> "Unable to calculate readiness score"],
     scoring_breakdown |-> << >>, error |-> e]

\* the result of calculate_readiness_score from the outcomes of its five
\* category functions and of _generate_checklist, the first exception
\* ending the try block
AICombine(cert, exp, geo, industry, capacity, checklist, tender_req) ==
    IF ~cert.ok THEN AIErrorResult(cert.error)
    ELSE IF ~exp.ok THEN AIErrorResult(exp.error)
    ELSE IF ~geo.ok THEN AIErrorResult(geo.error)
    ELSE IF ~industry.ok THEN AIErrorResult(industry.error)
    ELSE IF ~capacity.ok THEN AIErrorResult(capacity.error)
    ELSE IF ~checklist.ok THEN AIErrorResult(checklist.error)
    ELSE [suitability_score |->
              Min(Round(RatAdd(RatAdd(RatAdd(RatAdd(
                  Weighted(cert.v, 30), Weighted(exp.v, 25)), Weighted(geo.v, 20)),
                  Weighted(industry.v, 15)), Weighted(capacity.v, 10))), 100),
          checklist |-> checklist.v,
          recommendation |->
              ai_generate_recommendation(RatAdd(RatAdd(RatAdd(RatAdd(
                  Weighted(cert.v, 30), Weighted(exp.v, 25)), Weighted(geo.v, 20)),
                  Weighted(industry.v, 15)), Weighted(capacity.v, 10))),
          scoring_breakdown |->
              << <<"certifications", cert.v>>, <<"experience", exp.v>>,
                 <<"geographic_coverage", geo.v>>, <<"industry_match", industry.v>>,
                 <<"capacity", capacity.v>> >>,
          tender_requirements |-> tender_req]

\* AIService.calculate_readiness_score
calculate_readiness_score(tender_req, profile) ==
    AICombine(ai_calculate_certification_score(tender_req, profile),
              ai_calculate_experience_score(tender_req, profile),
              ai_calculate_geographic_score(tender_req, profile),
              ai_calculate_industry_score(tender_req, profile),
              ai_calculate_capacity_score(profile),
              ai_generate_checklist(tender_req, profile), tender_req)


\* technical_terms of _calculate_complexity
technical_terms ==
    <<"specification", "requirement", "compliance", "standard",
      "regulation", "certification", "qualification", "mandatory">>

\* <<len(text), tech_count>> for which the double 50 * (len(text) / 1000)
\* + tech_count * 5 is less than the integer that the real numbers give, so
\* that int() yields one less; from 2000 characters on the factor is 2 and
\* the double is exact
DoubleBelow == {<<580, 0>>, <<1140, 0>>, <<1140, 1>>, <<1160, 0>>, <<1160, 1>>}

\* int(score) of _calculate_complexity for a text of length characters with
\* tech_count of the technical terms
ComplexityOf(length, tech_count) ==
    (50 * Min(length, 2000)) \div 1000 + tech_count * 5
        - (IF <<length, tech_count>> \in DoubleBelow THEN 1 ELSE 0)

\* AIService._calculate_complexity
calculate_complexity(text) ==
    IF ~Truthy(text) THEN 50
    ELSE Min(ComplexityOf(CharLen(text.s),
                          Cardinality({i \in 1..Len(technical_terms) :
                              StrIn(<<technical_terms[i]>>, Lower(text.s))})),
             100)

----------------------------------------------------------------------------
(* Regular expressions over token sequences.  A pattern is a sequence of   *)
(* elements: Lit(A) is one token out of A, Lazy the non-greedy wildcard,   *)
(* and the capture groups are CapD (a run of digits), CapDA (digits and    *)
(* then letters), CapW (a run of word characters) and CapDate (a number of *)
(* one or two digits, a word and a number of four digits).  Optional white *)
(* space between two elements is the blank between two tokens.  No pattern *)
(* has more than one group.                                                *)

Lit(A) == [k |-> "lit", alts |-> A]
Lazy == [k |-> "lazy"]
CapD == [k |-> "capd"]
CapDA == [k |-> "capda"]
CapW == [k |-> "capw"]
CapDate == [k |-> "capdate"]

NoMatch == [ok |-> FALSE]

\* a run of word characters
IsWord(tok) == tok \notin Punct /\ tok # WS

\* tokens made of digits and then letters
DigitsAlpha == {"7a"}

HasGroup(pat) == \E i \in 1..Len(pat) : pat[i].k \in {"capd", "capda", "capw", "capdate"}

\* the match of the elements k.. of pat at position pos of T that the
\* backtracking search finds first: [ok, cap (text of the group), end]
RECURSIVE MatchAt(_, _, _, _)
MatchAt(pat, k, T, pos) ==
    IF k > Len(pat) THEN [ok |-> TRUE, cap |-> << >>, end |-> pos]
    ELSE LET e == pat[k]
             one(good) ==
                 IF pos <= Len(T) /\ good
                 THEN LET r == MatchAt(pat, k + 1, T, pos + 1)
                      IN  IF r.ok THEN [r EXCEPT !.cap = <<T[pos]>>] ELSE NoMatch
                 ELSE NoMatch
         IN  CASE e.k = "lit" ->
                    IF pos <= Len(T) /\ T[pos] \in e.alts
                    THEN MatchAt(pat, k + 1, T, pos + 1)
                    ELSE NoMatch
               [] e.k = "lazy" ->
                    LET S == {n \in 0..(Len(T) + 1 - pos) : MatchAt(pat, k + 1, T, pos + n).ok}
                    IN  IF S = {} THEN NoMatch
                        ELSE MatchAt(pat, k + 1, T,
                                     pos + (CHOOSE n \in S : \A m \in S : n <= m))
               [] e.k = "capd" -> one(IsDigits(T[pos]))
               [] e.k = "capda" -> one(IsDigits(T[pos]) \/ T[pos] \in DigitsAlpha)
               [] e.k = "capw" -> one(IsWord(T[pos]))
               [] OTHER ->
                    IF /\ pos + 2 <= Len(T)
                       /\ IsDigits(T[pos]) /\ Len(T[pos]) <= 2
                       /\ IsWord(T[pos + 1])
                       /\ IsDigits(T[pos + 2]) /\ Len(T[pos + 2]) = 4
                    THEN LET r == MatchAt(pat, k + 1, T, pos + 3)
                         IN  IF r.ok THEN [r EXCEPT !.cap = SubSeq(T, pos, pos + 2)]
                             ELSE NoMatch
                    ELSE NoMatch

\* re.findall(pattern, text): ok iff the list is not empty, and then text is
\* matches[0], the group of the leftmost match, or the whole match when the
\* pattern has no group
FindFirst(pat, T) ==
    LET S == {i \in 1..Len(T) : MatchAt(pat, 1, T, i).ok}
    IN  IF S = {} THEN NoMatch
        ELSE LET start == CHOOSE i \in S : \A j \in S : i <= j
                 r == MatchAt(pat, 1, T, start)
             IN  [ok |-> TRUE,
                  text |-> IF HasGroup(pat) THEN r.cap ELSE SubSeq(T, start, r.end - 1)]

\* cert_patterns of extract_tender_requirements
cert_patterns ==
    << <<"CIDB", << <<Lit({"cidb"}), Lazy, Lit({"grade"}), CapW>>,
                    <<Lit({"cidb"}), Lazy, CapDA>>,
                    <<Lit({"construction"}), Lit({"industry"}), Lit({"development"}), Lit({"board"})>>,
                    <<Lit({"grade"}), CapW, Lazy, Lit({"cidb"})>> >> >>,
       <<"BBBEE", << <<Lit({"bbbee"}), Lazy, Lit({"level"}), CapD>>,
                     <<Lit({"b-bbee"}), Lazy, Lit({"level"}), CapD>>,
                     <<Lit({"broad-based"}), Lit({"black"}), Lit({"economic"}), Lit({"empowerment"})>>,
                     <<Lit({"bbbee"})>>,
                     <<Lit({"b-bbee"})>> >> >>,
       <<"SARS", << <<Lit({"sars"}), Lazy, Lit({"tax"})>>,
                    <<Lit({"tax"}), Lit({"clearance"})>>,
                    <<Lit({"tax"}), Lit({"certificate"})>>,
                    <<Lit({"tax"}), Lit({"compliant"})>> >> >>,
       <<"CSD", << <<Lit({"csd"})>>,
                   <<Lit({"central"}), Lit({"supplier"}), Lit({"database"})>>,
                   <<Lit({"supplier"}), Lit({"database"})>> >> >>,
       <<"PSIRA", << <<Lit({"psira"})>>,
                     <<Lit({"private"}), Lit({"security"})>>,
                     <<Lit({"security"}), Lit({"industry"})>> >> >>,
       <<"ISO", << <<Lit({"iso"}), Lazy, CapD>>,
                   <<Lit({"iso"}), Lazy, Lit({"certification"})>>,
                   <<Lit({"iso"}), Lazy, Lit({"standard"})>> >> >>,
       <<"SANS", << <<Lit({"sans"}), Lazy, CapD>>,
                    <<Lit({"south"}), Lit({"african"}), Lit({"national"}), Lit({"standard"})>> >> >> >>

\* exp_patterns
exp_patterns ==
    << <<CapD, Lit({"year", "years"}), Lit({"experience"})>>,
       <<Lit({"minimum"}), Lit({"of"}), CapD, Lit({"years"})>>,
       <<Lit({"at"}), Lit({"least"}), CapD, Lit({"years"})>>,
       <<CapD, Lit({"year", "years"}), Lit({"in", "industry", "infrastructure"}), Lazy, Lit({"experience"})>>,
       <<Lit({"experience"}), Lazy, CapD, Lit({"years"})>>,
       <<CapD, Lazy, Lit({"years"}), Lazy, Lit({"experience"})>> >>

\* provinces
provinces ==
    << <<"gauteng">>, <<"western", "cape">>, <<"kwazulu-natal">>, <<"eastern", "cape">>,
       <<"limpopo">>, <<"mpumalanga">>, <<"north", "west">>, <<"free", "state">>,
       <<"northern", "cape">> >>

\* the tokens that end with the letter r, where the letter r of the
\* financial patterns is found
EndsWithR == {"r", "tender", "year", "for", "december"}

\* financial_patterns; the amount is CapD, the numbers of the texts having
\* neither thousands separators nor decimals
financial_patterns ==
    << <<Lit({"budget"}), Lazy, Lit(EndsWithR), CapD>>,
       <<Lit({"amount"}), Lazy, Lit(EndsWithR), CapD>>,
       <<Lit({"value"}), Lazy, Lit(EndsWithR), CapD>>,
       <<Lit(EndsWithR), CapD>> >>

\* deadline_patterns
deadline_patterns ==
    << <<Lit({"closing"}), Lit({"date"}), Lazy, CapDate>>,
       <<Lit({"deadline"}), Lazy, CapDate>>,
       <<Lit({"submission"}), Lazy, CapDate>>,
       <<Lit({"due"}), Lazy, CapDate>> >>

technical_indicators ==
    <<"software", "hardware", "equipment", "system", "network", "infrastructure", "tools",
      "machinery", "vehicles", "facilities", "technology", "digital", "automation">>

submission_keywords ==
    <<"proposal", "quotation", "bid", "tender", "document", "submission", "application",
      "form", "certificate">>

----------------------------------------------------------------------------
(* ReadinessScorer.extract_tender_requirements                             *)

\* the text without its runs of white space
Tokens(text) == SelectSeq(text, LAMBDA tok : tok # WS)

\* the loop over the patterns of one certificate: the text of matches[0] of
\* the first pattern that matches
RECURSIVE FirstPattern(_, _)
FirstPattern(patterns, T) ==
    IF patterns = << >> THEN NoMatch
    ELSE IF FindFirst(Head(patterns), T).ok THEN FindFirst(Head(patterns), T)
    ELSE FirstPattern(Tail(patterns), T)

\* the loop over cert_patterns
RECURSIVE ExtractCerts(_, _)
ExtractCerts(certs, T) ==
    IF certs = << >> THEN << >>
    ELSE LET cert == Head(certs)[1]
             m == FirstPattern(Head(certs)[2], T)
         IN  (IF m.ok
              THEN << (IF Strip(m.text) # << >> THEN <<cert, ":">> \o m.text ELSE <<cert>>) >>
              ELSE << >>)
             \o ExtractCerts(Tail(certs), T)

\* the loop over exp_patterns, min_experience being acc
RECURSIVE ExtractExperience(_, _, _)
ExtractExperience(patterns, T, acc) ==
    IF patterns = << >> THEN acc
    ELSE LET m == FindFirst(Head(patterns), T)
             years == ParseInt(m.text[1])
         IN  ExtractExperience(Tail(patterns), T,
                               IF m.ok /\ years > acc THEN years ELSE acc)

\* the loop over provinces
RECURSIVE ExtractProvinces(_, _)
ExtractProvinces(ps, text) ==
    IF ps = << >> THEN << >>
    ELSE (IF StrIn(Head(ps), text) THEN <<Title(Head(ps))>> ELSE << >>)
         \o ExtractProvinces(Tail(ps), text)

\* str.count(keyword): the occurrences of a one-token keyword
Count(keyword, text) == Cardinality({i \in 1..Len(text) : SubTok(keyword, text[i])})

\* the score of one sector in _detect_industry_sector, doubled
RECURSIVE SectorScore2(_, _, _)
SectorScore2(keywords, combined_text, title) ==
    IF keywords = << >> THEN 0
    ELSE LET keyword == Head(keywords)
         IN  (IF StrIn(<<keyword>>, combined_text)
              THEN 4 + Min(Count(keyword, combined_text), 10)
                   + (IF StrIn(<<keyword>>, Lower(title)) THEN 6 ELSE 0)
              ELSE 0)
             + SectorScore2(Tail(keywords), combined_text, title)

\* sector.replace("_", " ")
ReplaceUnderscore(sector) == IF sector = "it_services" THEN <<"it", "services">> ELSE <<sector>>

\* _detect_industry_sector; max() returns the first of the sectors with the
\* highest score
detect_industry_sector(text, title, mappings) ==
    LET combined_text == Lower(title \o text)
        score2(i) == SectorScore2(mappings[i][2], combined_text, title)
        best == CHOOSE i \in 1..Len(mappings) :
                    /\ \A j \in 1..Len(mappings) : score2(j) <= score2(i)
                    /\ \A j \in 1..(i - 1) : score2(j) < score2(i)
    IN  IF mappings # << >> /\ score2(best) > 4
        THEN Title(ReplaceUnderscore(mappings[best][1]))
        ELSE <<"General", "Services">>

SentenceMarks == {".", "!", "?"}

\* re.split(r'[.!?]+', text), every part stripped
RECURSIVE Sentences(_)
Sentences(text) ==
    IF \E i \in 1..Len(text) : text[i] \in SentenceMarks
    THEN LET k == CHOOSE i \in 1..Len(text) :
                      text[i] \in SentenceMarks /\ \A j \in 1..(i - 1) : text[j] \notin SentenceMarks
         IN  IF k = 1 THEN Sentences(Tail(text))
             ELSE <<Strip(SubSeq(text, 1, k - 1))>> \o Sentences(SubSeq(text, k + 1, Len(text)))
    ELSE <<Strip(text)>>

\* the sentences that contain one of the keywords, longer than 10
\* characters, each once
RECURSIVE KeywordSentences(_, _, _)
KeywordSentences(sentences, keywords, acc) ==
    IF sentences = << >> THEN acc
    ELSE LET clean_sentence == Head(sentences)
             found == \E i \in 1..Len(keywords) : StrIn(<<keywords[i]>>, clean_sentence)
             fresh == \A i \in 1..Len(acc) : acc[i] # clean_sentence
         IN  KeywordSentences(Tail(sentences), keywords,
                 IF found /\ CharLen(clean_sentence) > 10 /\ fresh
                 THEN Append(acc, clean_sentence) ELSE acc)

\* the budget_indication of an amount
FormatBudget(amount) ==
    IF amount > 1000000
    THEN LET tenths == Round(Rat(amount, 100000))
         IN  <<"R" \o IntStr(tenths \div 10) \o "." \o IntStr(tenths % 10) \o "M">>
    ELSE IF amount > 1000 THEN <<"R" \o IntStr(Round(Rat(amount, 1000))) \o "K">>
    ELSE <<"R" \o IntStr(amount)>>

\* extract_tender_requirements: the returned requirements, or the exception
\* that reaches the caller
extract_tender_requirements(tender_description, tender_title, mappings) ==
    IF tender_title.t # "str" THEN [kind |-> "raised", exc |-> <<"TypeError", "+">>]
    ELSE
    LET text == Lower(tender_title.s \o OrElse(tender_description, PyStr(<< >>)).s)
        T == Tokens(text)
        sentences == Sentences(text)
        budget == FirstPattern(financial_patterns, T)
        deadline == FirstPattern(deadline_patterns, T)
    IN  [kind |-> "returned",
         value |->
           [required_certifications |-> ExtractCerts(cert_patterns, T),
            required_provinces |-> ExtractProvinces(provinces, T),
            min_experience |-> ExtractExperience(exp_patterns, T, 0),
            industry_sector |-> detect_industry_sector(T, tender_title.s, mappings),
            technical_requirements |-> KeywordSentences(sentences, technical_indicators, << >>),
            financial_requirements |-> << >>,
            submission_requirements |-> KeywordSentences(sentences, submission_keywords, << >>),
            deadline_info |-> IF deadline.ok THEN deadline.text ELSE << >>,
            budget_indication |->
                IF budget.ok THEN FormatBudget(ParseInt(budget.text[1])) ELSE << >>]]

----------------------------------------------------------------------------
(* DocumentProcessor.summarize_text                                        *)

keyword_categories ==
    [high_priority |->
    << <<"required">>, <<"must">>, <<"shall">>, <<"mandatory">>, <<"essential">>,
       <<"deadline">>, <<"submission">>, <<"closing", "date">>, <<"due", "date">>,
       <<"eligibility">>, <<"qualification">>, <<"certification">>, <<"experience">>,
       <<"years">>, <<"minimum">>, <<"compliance">>, <<"cidb">>, <<"bbbee">>, <<"sars">>,
       <<"tax", "clearance">>, <<"csd">> >>,
     medium_priority |->
    << <<"tender">>, <<"bid">>, <<"contract">>, <<"scope">>, <<"objective">>, <<"budget">>,
       <<"amount">>, <<"value">>, <<"price">>, <<"cost">>, <<"project">>, <<"work">>,
       <<"services">>, <<"deliverables">>, <<"department">>, <<"government">>,
       <<"procurement">> >>,
     low_priority |->
    << <<"background">>, <<"introduction">>, <<"purpose">>, <<"aim">>, <<"contact">>,
       <<"information">>, <<"details">>, <<"document">> >>]

\* str.count(keyword) of a keyword of one or more tokens
Occurrences(keyword, text) ==
    IF Len(keyword) = 1 THEN Count(keyword[1], text)
    ELSE Cardinality({i \in 1..(Len(text) - Len(keyword) + 1) :
                         SubSeq(text, i, i + Len(keyword) - 1) = keyword})

\* the sum of f(keyword) over the keywords of the list that are in the
\* sentence
RECURSIVE KeywordSum(_, _, _, _)
KeywordSum(keywords, sentence_lower, base, per) ==
    IF keywords = << >> THEN 0
    ELSE (IF StrIn(Head(keywords), sentence_lower)
          THEN base + per * Occurrences(Head(keywords), sentence_lower)
          ELSE 0)
         + KeywordSum(Tail(keywords), sentence_lower, base, per)

\* the score of a sentence of length sentence_length at index i (from 0)
ScoreOf(sentence_lower, sentence_length, i) ==
    KeywordSum(keyword_categories.high_priority, sentence_lower, 3, 1)
    + KeywordSum(keyword_categories.medium_priority, sentence_lower, 2, 0)
    + KeywordSum(keyword_categories.low_priority, sentence_lower, -1, 0)
    + (IF i < 3 THEN 3 ELSE IF i < 6 THEN 1 ELSE 0)
    + (IF 50 <= sentence_length /\ sentence_length <= 200 THEN 2 ELSE 0)

\* the scores of the sentences, the first of them at index i
RECURSIVE SentenceScores(_, _)
SentenceScores(sentences, i) ==
    IF sentences = << >> THEN << >>
    ELSE <<ScoreOf(Lower(Head(sentences)) \o << >>, CharLen(Head(sentences)), i)>>
         \o SentenceScores(Tail(sentences), i + 1)

\* the place of the sentence at position i (from 1) after the stable sort by
\* falling score
Rank(scores, i) ==
    1 + Cardinality({j \in 1..Len(scores) :
                        scores[j] > scores[i] \/ (scores[j] = scores[i] /\ j < i)})

\* variant of top_sentences: the six sentences of the highest scores
TopSixSentences(sentences, scores) ==
    LET top == {sentences[i] : i \in {j \in 1..Len(sentences) :
                                        Rank(scores, j) <= 6 /\ scores[j] > 0}}
    IN  IF top = {} THEN {sentences[i] : i \in 1..Min(4, Len(sentences))} ELSE top

\* top_sentences, as a set of sentences
TopSentences(sentences, scores) ==
    LET top == {sentences[i] : i \in {j \in 1..Len(sentences) :
                                        Rank(scores, j) <= 5 /\ scores[j] > 0}}
    IN  IF top = {} THEN {sentences[i] : i \in 1..Min(4, Len(sentences))} ELSE top

\* ' '.join of the first n of the sentences that are in top, in the order
\* of the document
RECURSIVE JoinTop(_, _, _)
JoinTop(sentences, top, n) ==
    IF sentences = << >> \/ n = 0 THEN << >>
    ELSE IF Head(sentences) \in top
    THEN Head(sentences) \o JoinTop(Tail(sentences), top, n - 1)
    ELSE JoinTop(Tail(sentences), top, n)

\* a returned string: the tokens kept, the number of characters kept after
\* them (a blank, a part of the next token) and whether "..." is appended
Kept(tokens, extra, dots) == [kept |-> tokens, extra |-> extra, dots |-> dots]

\* len() of a returned string
KeptLen(r) == CharLen(r.kept) + r.extra + (IF r.dots THEN 3 ELSE 0)

\* the number of leading tokens of s that lie within its first n characters
Fitting(s, n) ==
    CHOOSE k \in 0..Len(s) :
        /\ CharLen(SubSeq(s, 1, k)) <= n
        /\ k < Len(s) => CharLen(SubSeq(s, 1, k + 1)) > n

\* text[:max_length] + "..." if len(text) > max_length else text
Truncate(text, max_length) ==
    IF CharLen(text) > max_length
    THEN Kept(SubSeq(text, 1, Fitting(text, max_length)),
              max_length - CharLen(SubSeq(text, 1, Fitting(text, max_length))), TRUE)
    ELSE Kept(text, 0, FALSE)

\* summary[:max_length].rsplit(' ', 1)[0] + '...' if len(summary) > max_length
\* else summary: the tokens before the last blank of the first max_length
\* characters
Trim(summary, max_length) ==
    LET blanks == {k \in 2..Len(summary) :
                      /\ summary[k] \notin Punct
                      /\ CharLen(SubSeq(summary, 1, k - 1)) + 1 <= max_length}
    IN  IF CharLen(summary) <= max_length THEN Kept(summary, 0, FALSE)
        ELSE IF blanks = {} THEN Truncate(summary, max_length)
        ELSE Kept(SubSeq(summary, 1, (CHOOSE k \in blanks : \A l \in blanks : l <= k) - 1),
                  0, TRUE)

NoContent == <<"No", "content", "available", "for", "summarization", ".">>

\* the sentences of the text that are longer than 10 characters
UsableSentences(text) == SelectSeq(Sentences(text), LAMBDA s : CharLen(s) > 10)

\* the summary of the normalised text with the given usable sentences
SummaryOf(text, sentences, max_length) ==
    IF Len(sentences) <= 3 THEN Truncate(text, max_length)
    ELSE Trim(JoinTop(sentences, TopSentences(sentences, SentenceScores(sentences, 0)), 4),
              max_length)

\* summarize_text(text, max_length)
summarize_text(text, max_length) ==
    IF ~Truthy(text) THEN Kept(NoContent, 0, FALSE)
    ELSE IF CharLen(Strip(text.s)) < 50 THEN Kept(text.s, 0, FALSE)
    ELSE SummaryOf(Tokens(text.s), UsableSentences(Tokens(text.s)), max_length)

----------------------------------------------------------------------------
(* The inputs of the calls *)

\* the sample sentence of test_readiness_scorer
SampleText ==
    <<"Construction", "tender", "requiring", "CIDB", "Grade", "7", ",", "5", "years",
      "experience", ",", "operations", "in", "Gauteng", ".">>

\* the tender of test_readiness_scorer_integration (test_ai_pipeline.py),
\* without its budget sentence
PipelineText ==
    <<"Construction", "of", "government", "office", "building", ".", "Required", ":", "CIDB",
      "Grade", "6", ",", "5", "+", "years", "experience", ",", "operations", "in", "Gauteng", ".">>

PipelineTitle == <<"Government", "Office", "Building", "Construction">>

\* a tender with a budget, a deadline and several certificates
LongText ==
    <<"supply", "of", "network", "equipment", "for", "2500000", ".", "bbbee", "level", "2",
      "and", "tax", "clearance", "certificate", ".", "at", "least", "3", "years", "in",
      "limpopo", "and", "western", "cape", ".", "closing", "date", ":", "15", "december",
      "2024", ".">>

\* a tender with two keywords of one sector
SoftwareText == <<"software", "and", "network", "support">>

\* a tender for work in KwaZulu-Natal
KwaZuluNatalText == <<"Security", "services", "in", "KwaZulu-Natal", "and", "Gauteng", ".">>

\* a tender that states its experience requirement twice
ExperienceText == <<"5", "years", "experience", ",", "7", "year", "experience">>

TextVocab == {"cidb", "grade", "7", "5", "years", "experience", "gauteng", "tender"}

\* the token sequences over TextVocab of length up to n
RECURSIVE SeqsUpTo(_)
SeqsUpTo(n) ==
    IF n = 0 THEN {<< >>}
    ELSE SeqsUpTo(n - 1) \cup {Append(s, tok) : s \in {q \in SeqsUpTo(n - 1) : Len(q) = n - 1},
                                                 tok \in TextVocab}

Descriptions ==
    {None, PyStr(<<WS>>), PyStr(SampleText), PyStr(PipelineText), PyStr(LongText),
     PyStr(ExperienceText), PyStr(KwaZuluNatalText),
     PyStr(SoftwareText)}
    \cup {PyStr(s) : s \in {q \in SeqsUpTo(MaxText) : q = << >> \/ Head(q) \notin Punct}}

Titles == {None, PyStr(<< >>), PyStr(<<"tender">>), PyStr(PipelineTitle)}

ServicesText ==
    <<"Civil", "engineering", ",", "building", "construction", ",", "infrastructure", "development">>

\* the mock company of test_readiness_scorer
MockCompanyProfile ==
    [id |-> PyInt(1),
     company_name |-> PyStr(<<"Test", "Construction", "Co">>),
     industry_sector |-> PyStr(<<"Construction">>),
     services_provided |-> PyStr(ServicesText),
     certifications |-> PyDict(<< <<(<<"CIDB">>), PyStr(<<"Grade", "7">>)>>,
                                  <<(<<"BBBEE">>), PyStr(<<"Level", "2">>)>>,
                                  <<(<<"SARS">>), PyStr(<<"true">>)>> >>),
     geographic_coverage |-> PyList(<< <<"Gauteng">>, <<"Western", "Cape">>, <<"KwaZulu-Natal">> >>),
     years_experience |-> PyInt(8),
     contact_email |-> PyStr(<<"test@construction.co.za">>),
     contact_phone |-> PyStr(<<"+27", "11", "123", "4567">>)]

Attributes == DOMAIN MockCompanyProfile

CertificationValues ==
    { MockCompanyProfile.certifications,
      PyDict(<< <<(<<"cidb", "grading">>), PyStr(<<"false">>)>>,
                <<(<<"CIDB">>), PyStr(<<"Grade", "5">>)>>,
                <<(<<"BBBEE">>), PyInt(0)>> >>),
      None }

MalformedCertifications ==
    { PyStr(<<"not", "json">>), PyStr(<<"[", "]">>), PyStr(<<"{", "}">>), PyStr(<<"5">>),
      PyStr(<<"{", "\"CIDB\"", ":", "\"Grade", "7\"", "}">>),
      PyList(<< <<"CIDB">> >>) }

CoverageValues == { MockCompanyProfile.geographic_coverage, None }

MalformedCoverage ==
    { PyStr(<<"not", "json">>), PyStr(<<"[", "\"Gauteng\"", "]">>), PyStr(<<"5">>),
      PyStr(<<"{", "}">>), PyDict(<< <<(<<"Gauteng">>), PyStr(<<"true">>)>> >>) }

YearsValues == {None} \cup {PyInt(n) : n \in 0..MaxYears}

\* profiles that have every attribute
WellFormedProfiles ==
    [id : {PyInt(1)},
     company_name : {MockCompanyProfile.company_name},
     industry_sector : {MockCompanyProfile.industry_sector},
     services_provided : {MockCompanyProfile.services_provided, None},
     certifications : CertificationValues,
     geographic_coverage : CoverageValues,
     years_experience : YearsValues,
     contact_email : {MockCompanyProfile.contact_email},
     contact_phone : {MockCompanyProfile.contact_phone}]

\* the mock company with one attribute of another value
VariedProfiles ==
    { [MockCompanyProfile EXCEPT !.company_name = PyStr(<<"Co">>)],
      [MockCompanyProfile EXCEPT !.company_name = None],
      [MockCompanyProfile EXCEPT !.contact_email = None],
      [MockCompanyProfile EXCEPT !.contact_phone = None],
      [MockCompanyProfile EXCEPT !.industry_sector = PyStr(<< >>)],
      [MockCompanyProfile EXCEPT !.industry_sector = None],
      [MockCompanyProfile EXCEPT !.industry_sector = PyStr(<<"Security">>)],
      [MockCompanyProfile EXCEPT !.services_provided = PyStr(<<"Security", "services">>)],
      [MockCompanyProfile EXCEPT !.industry_sector = PyStr(<<"Security">>),
                                 !.services_provided = PyStr(SoftwareText)],
      [MockCompanyProfile EXCEPT !.industry_sector = PyStr(<<"Security">>),
                                 !.services_provided = PyStr(<<"civil", "engineering", "works">>)],
      [MockCompanyProfile EXCEPT !.certifications = PyDict(<< <<(<<"CIDB">>), PyStr(<<"Grade", "7">>)>> >>)],
      [MockCompanyProfile EXCEPT !.geographic_coverage = PyList(<< <<"Limpopo">> >>)] }

\* companies with eight years of experience, a CIDB grade 7 certificate
\* and Gauteng as their only province
GautengBuilders ==
    [id : {PyInt(1)},
     company_name : {MockCompanyProfile.company_name, None},
     industry_sector : {MockCompanyProfile.industry_sector, PyStr(<<"Security">>), None},
     services_provided : {MockCompanyProfile.services_provided, None},
     certifications : {PyDict(<< <<(<<"CIDB">>), PyStr(<<"Grade", "7">>)>> >>)},
     geographic_coverage : {PyList(<< <<"Gauteng">> >>)},
     years_experience : {PyInt(8)},
     contact_email : {MockCompanyProfile.contact_email, None},
     contact_phone : {MockCompanyProfile.contact_phone}]

\* the mock company with one attribute missing or of another type
MalformedProfiles ==
    {[MockCompanyProfile EXCEPT ![a] = Absent] : a \in Attributes}
    \cup {[MockCompanyProfile EXCEPT !.certifications = c] : c \in MalformedCertifications}
    \cup {[MockCompanyProfile EXCEPT !.geographic_coverage = c] : c \in MalformedCoverage}

Profiles == WellFormedProfiles \cup VariedProfiles \cup GautengBuilders \cup MalformedProfiles

\* tender_req of test_readiness_scorer
TestRequirements ==
    [required_certifications |->
         << <<"CIDB", ":", "Grade", "7">>, <<"BBBEE", ":", "Level", "2">>,
            <<"SARS", "Tax", "Clearance">> >>,
     required_provinces |-> << <<"Gauteng">>, <<"Western", "Cape">> >>,
     min_experience |-> 5,
     industry_sector |-> <<"Construction">>,
     technical_requirements |-> << <<"Civil", "works", "experience">>, <<"Building", "construction">> >>,
     budget_indication |-> <<"R5M", "-", "R10M">>]

\* a construction tender in Gauteng that asks for two years of experience
GautengRequirements ==
    [required_certifications |-> << >>,
     required_provinces |-> << <<"Gauteng">> >>,
     min_experience |-> 2,
     industry_sector |-> <<"Construction">>]

\* a requirements map with none of the keys that the scorers read
EmptyRequirements == [financial_requirements |-> << >>]

\* what extract_tender_requirements returns for a description
Extracted(description, title) ==
    extract_tender_requirements(PyStr(description), PyStr(title), InitIndustryMappings).value

\* requirements maps with the keys of both scorers
BuiltRequirements ==
    [required_certifications :
         { << >>, << <<"CIDB", ":", "7">> >>,
           << <<"CIDB", ":", "Grade", "7">>, <<"BBBEE">>, <<"PSIRA">> >> },
     required_provinces : { << <<"Gauteng">>, <<"Limpopo">> >> },
     geographic_requirements : { << <<"Gauteng">>, <<"Limpopo">>, <<"Kwazulu-Natal">> >> },
     min_experience : {0, 2, 5},
     experience_years : {5},
     industry_sector : { <<"It", "Services">> }]

\* a requirements map that asks for two certificates and nothing else
TwoCertificates ==
    [required_certifications |-> << <<"CIDB">>, <<"BBBEE", ":", "Level", "2">> >>]

\* the tender requirements of test_readiness_scoring
PipelineRequirements ==
    [required_certifications |->
         << <<"CIDB", ":", "Grade", "7">>, <<"BBBEE", ":", "Level", "2">>,
            <<"SARS", "Tax", "Clearance">> >>,
     experience_years |-> 5,
     geographic_requirements |-> << <<"Gauteng">> >>]

\* a requirements map that names a certificate and a region twice
RepeatedRequirements ==
    [required_certifications |-> << <<"CIDB", ":", "Grade", "7">>, <<"CIDB", ":", "Grade", "5">> >>,
     required_provinces |-> << <<"Gauteng">>, <<"Gauteng">> >>,
     min_experience |-> 5]

RequirementMaps ==
    {EmptyRequirements, TestRequirements, GautengRequirements, TwoCertificates,
     RepeatedRequirements, PipelineRequirements,
     Extracted(SampleText, << >>),
     Extracted(PipelineText, PipelineTitle), Extracted(LongText, << >>)}
    \cup BuiltRequirements


\* word repeated k times
Repeat(word, k) == [i \in 1..k |-> word]

\* what a long text ends with: none, some or all of the technical terms
TextEndings ==
    { << >>, <<"mandatory">>, <<"Compliance", "standard">>,
      <<"requirements", "requirements">>, technical_terms }

\* texts of title and description, f"{tender.title} {tender.description or ''}"
\* as _calculate_complexity gets them, and no text
ComplexityTexts ==
    {None, PyStr(<<WS>>)}
    \cup {PyStr(Repeat("tender", k) \o e) : k \in 0..MaxRepeat, e \in TextEndings}

\* the five category names of ReadinessScorer
Categories == <<"certifications", "experience", "geographic_coverage", "sector_match", "capacity">>

----------------------------------------------------------------------------
(* Concurrent calls: request handlers run in threads and call the shared  *)
(* instances readiness_scorer and ai_service.  A thread executes its call  *)
(* statement by statement, one category at a time, and the statements of   *)
(* the threads interleave.  The profiles and requirement maps are objects  *)
(* on the heap that two calls may both be given.                           *)

NoInput == [op |-> "none"]
NoOutcome == [kind |-> "none"]

Threads == 1..NThreads

\* the objects that the handlers pass to the calls
InitHeap ==
    [profiles |-> <<MockCompanyProfile, [MockCompanyProfile EXCEPT !.certifications = Absent]>>,
     requirements |-> <<TestRequirements>>]

\* a thread that is in no call
IdleThread ==
    [op |-> "none", pc |-> 0, profile |-> 0, requirements |-> 0, parts |-> << >>,
     w |-> [c \in {Categories[i] : i \in 1..5} |-> 0], result |-> NoOutcome]

\* the number of statements of the try block: the five categories and, in
\* calculate_readiness_score, _generate_checklist
Statements(op) == IF op = "score" THEN 5 ELSE 6

\* statement k of the try block of calculate_suitability_score ("score") or
\* of calculate_readiness_score ("ai_score")
Statement(op, k, tender_req, p, mappings) ==
    IF op = "score"
    THEN CASE k = 1 -> calculate_certification_score(tender_req, p)
           [] k = 2 -> calculate_experience_score(tender_req, p)
           [] k = 3 -> calculate_geographic_score(tender_req, p)
           [] k = 4 -> calculate_sector_score(tender_req, p, mappings)
           [] OTHER -> calculate_capacity_score(p)
    ELSE CASE k = 1 -> ai_calculate_certification_score(tender_req, p)
           [] k = 2 -> ai_calculate_experience_score(tender_req, p)
           [] k = 3 -> ai_calculate_geographic_score(tender_req, p)
           [] k = 4 -> ai_calculate_industry_score(tender_req, p)
           [] k = 5 -> ai_calculate_capacity_score(p)
           [] OTHER -> ai_generate_checklist(tender_req, p)

\* the outcome of statement k of a call, that of the statement that raised
\* for the statements that the call did not reach
Part(parts, k) == IF k <= Len(parts) THEN parts[k] ELSE parts[Len(parts)]

\* what the call returns after its try block
Returned(op, parts, w, tender_req, clock) ==
    [kind |-> "returned",
     value |-> IF op = "score"
               THEN ResultOf(CombineCategories(Part(parts, 1), Part(parts, 2), Part(parts, 3),
                                               Part(parts, 4), Part(parts, 5), w),
                             tender_req, clock)
               ELSE AICombine(Part(parts, 1), Part(parts, 2), Part(parts, 3), Part(parts, 4),
                              Part(parts, 5), Part(parts, 6), tender_req)]

\* the sentences of the documents that are summarized: one with three
\* keywords of high priority, one with three of low priority, and a long one
\* with a keyword of medium priority
SentencePool ==
    { <<"mandatory", "certification", "required">>,
      <<"background", "introduction", "purpose">>,
      Repeat("procurement", 6) }

\* the documents of up to n sentences of the pool, every sentence ended by
\* a full stop
RECURSIVE Documents(_)
Documents(n) ==
    IF n = 0 THEN {<< >>}
    ELSE Documents(n - 1)
         \cup {s \o <<".">> \o d : s \in SentencePool,
                                  d \in {q \in Documents(n - 1) :
                                            Cardinality({i \in 1..Len(q) : q[i] = "."}) = n - 1}}

\* a document with a sentence that is too short to be used
AnnexText ==
    <<"mandatory", "certification", "required", ".", "see", "annex", "!", "background",
      "introduction", "purpose", ".">> \o Repeat("procurement", 6)
    \o <<"?", "mandatory", "certification", "required", ".", "tender", "for", "services", ".">>

\* n copies of a sentence, every copy ended by a full stop
RECURSIVE Copies(_, _)
Copies(sentence, n) ==
    IF n = 0 THEN << >> ELSE sentence \o <<".">> \o Copies(sentence, n - 1)

\* the documents of six and of seven sentences that are a sentence of the
\* pool and then copies of another
LongDocuments ==
    {Copies(first, 1) \o Copies(rest, n - 1) : first \in SentencePool, rest \in SentencePool,
                                              n \in {6, 7}}

SummaryTexts ==
    {PyStr(<<WS>>), PyStr(Repeat(WS, 40)), PyStr(AnnexText)}
    \cup {PyStr(d) : d \in Documents(MaxSentences) \cup LongDocuments}

\* the values of max_length: a short summary, and the 250 characters that
\* process_document asks for
MaxLengths == {60, 250}

----------------------------------------------------------------------------
(* The calls *)

Init ==
    /\ weights = InitWeights
    /\ industry_mappings = InitIndustryMappings
    /\ now = 0
    /\ pc = "idle"
    /\ input = NoInput
    /\ outcome = NoOutcome
    /\ previous = NoOutcome
    /\ heap = InitHeap
    /\ threads = [t \in Threads |-> IdleThread]

\* what a call of the operation does in the current state, the clock
\* reading clock
Call(op, in, clock) ==
    CASE op = "extract" ->
            extract_tender_requirements(in.description, in.title, industry_mappings)
      [] op = "score" ->
            calculate_suitability_score(in.profile, in.requirements, weights,
                                        industry_mappings, clock)
      [] op = "ai_score" ->
            [kind |-> "returned", value |-> calculate_readiness_score(in.requirements, in.profile)]
      [] op = "summarize" ->
            [kind |-> "returned", value |-> summarize_text(in.text, in.max_length)]
      [] OTHER ->
            [kind |-> "returned", value |-> calculate_complexity(in.text)]

\* readiness_scorer.extract_tender_requirements(description, title)
Extract(description, title) ==
    /\ pc = "idle"
    /\ pc' = "extract"
    /\ input' = [description |-> description, title |-> title]
    /\ outcome' = extract_tender_requirements(description, title, industry_mappings)
    /\ UNCHANGED <<weights, industry_mappings, now, previous, heap, threads>>

\* variant of the call of calculate_suitability_score: the call leaves the
\* capacity weight of the scorer at zero
ScoreReweighing(profile, requirements) ==
    /\ pc = "idle"
    /\ pc' = "score"
    /\ input' = [profile |-> profile, requirements |-> requirements]
    /\ outcome' = calculate_suitability_score(profile, requirements, weights,
                                               industry_mappings, now)
    /\ weights' = [weights EXCEPT !.capacity = 0]
    /\ UNCHANGED <<industry_mappings, now, previous, heap, threads>>

\* readiness_scorer.calculate_suitability_score(profile, requirements)
Score(profile, requirements) ==
    /\ pc = "idle"
    /\ pc' = "score"
    /\ input' = [profile |-> profile, requirements |-> requirements]
    /\ outcome' = calculate_suitability_score(profile, requirements, weights,
                                               industry_mappings, now)
    /\ UNCHANGED <<weights, industry_mappings, now, previous, heap, threads>>

\* ai_service.calculate_readiness_score(requirements, profile)
AIScore(requirements, profile) ==
    /\ pc = "idle"
    /\ pc' = "ai_score"
    /\ input' = [profile |-> profile, requirements |-> requirements]
    /\ outcome' = [kind |-> "returned",
                    value |-> calculate_readiness_score(requirements, profile)]
    /\ UNCHANGED <<weights, industry_mappings, now, previous, heap, threads>>

\* ai_service._calculate_complexity(text)
Complexity(text) ==
    /\ pc = "idle"
    /\ pc' = "complexity"
    /\ input' = [text |-> text]
    /\ outcome' = [kind |-> "returned", value |-> calculate_complexity(text)]
    /\ UNCHANGED <<weights, industry_mappings, now, previous, heap, threads>>

\* document_processor.summarize_text(text, max_length)
Summarize(text, max_length) ==
    /\ pc = "idle"
    /\ pc' = "summarize"
    /\ input' = [text |-> text, max_length |-> max_length]
    /\ outcome' = [kind |-> "returned", value |-> summarize_text(text, max_length)]
    /\ UNCHANGED <<weights, industry_mappings, now, previous, heap, threads>>

\* the caller repeats the call with the same arguments, delay clock ticks
\* later
Again(delay) ==
    /\ pc # "idle"
    /\ previous = NoOutcome
    /\ now' = now + delay
    /\ previous' = outcome
    /\ outcome' = Call(pc, input, now')
    /\ UNCHANGED <<weights, industry_mappings, pc, input, heap, threads>>

\* the caller is done with the outcome
Return ==
    /\ pc # "idle"
    /\ pc' = "idle"
    /\ input' = NoInput
    /\ outcome' = NoOutcome
    /\ previous' = NoOutcome
    /\ now' = 0
    /\ UNCHANGED <<weights, industry_mappings, heap, threads>>

Next ==
    \/ \E d \in Descriptions, t \in Titles : Extract(d, t)
    \/ \E p \in Profiles, r \in RequirementMaps : Score(p, r)
    \/ \E p \in Profiles, r \in RequirementMaps : AIScore(r, p)
    \/ \E text \in ComplexityTexts : Complexity(text)
    \/ \E text \in SummaryTexts, max_length \in MaxLengths : Summarize(text, max_length)
    \/ \E delay \in 0..MaxClock : Again(delay)
    \/ Return

Spec == Init /\ [][Next]_vars

----------------------------------------------------------------------------
(* The statements of the threads *)

\* thread t calls op with the objects p and r; calculate_suitability_score
\* reads company_profile.id before its try block
Begin(t, op, p, r) ==
    /\ threads[t].pc = 0
    /\ threads' = [threads EXCEPT ![t] =
          IF op = "score" /\ ~HasAttr(heap.profiles[p], "id")
          THEN [IdleThread EXCEPT !.op = op, !.profile = p, !.requirements = r, !.pc = 8,
                                  !.result = [kind |-> "raised", exc |-> <<"AttributeError", "id">>]]
          ELSE [IdleThread EXCEPT !.op = op, !.profile = p, !.requirements = r, !.pc = 1]]
    /\ UNCHANGED <<weights, industry_mappings, now, pc, input, outcome, previous, heap>>

\* the thread after a statement of its try block with the outcome part: an
\* exception ends the block, and calculate_suitability_score adds the score
\* at the weight of the category that it read
After(th, part, weight) ==
    [th EXCEPT !.parts = Append(@, part),
               !.w = IF th.op = "score" THEN [@ EXCEPT ![Categories[th.pc]] = weight] ELSE @,
               !.pc = IF ~part.ok \/ th.pc = Statements(th.op) THEN 7 ELSE @ + 1]

\* variant of Step: the statement leaves the weight of its category at zero
\* in the shared scorer
StepReweighing(t) ==
    /\ threads[t].pc \in 1..Statements(threads[t].op)
    /\ threads' = [threads EXCEPT ![t] =
          After(@, Statement(@.op, @.pc, heap.requirements[@.requirements],
                             heap.profiles[@.profile], industry_mappings),
                weights[Categories[@.pc]])]
    /\ weights' = IF threads[t].op = "score"
                  THEN [weights EXCEPT ![Categories[threads[t].pc]] = 0]
                  ELSE weights
    /\ UNCHANGED <<industry_mappings, now, pc, input, outcome, previous, heap>>

\* thread t executes the next statement of its try block: the category
\* function reads the two objects and the taxonomy of the scorer, and the
\* weight of the category is read from the scorer
Step(t) ==
    /\ threads[t].pc \in 1..Statements(threads[t].op)
    /\ threads' = [threads EXCEPT ![t] =
          After(@, Statement(@.op, @.pc, heap.requirements[@.requirements],
                             heap.profiles[@.profile], industry_mappings),
                weights[Categories[@.pc]])]
    /\ UNCHANGED <<weights, industry_mappings, now, pc, input, outcome, previous, heap>>

\* thread t builds the result, reading the clock, and returns it
Finish(t) ==
    /\ threads[t].pc = 7
    /\ threads' = [threads EXCEPT ![t] =
          [@ EXCEPT !.pc = 8,
                    !.result = Returned(threads[t].op, threads[t].parts, threads[t].w,
                                        heap.requirements[threads[t].requirements], now)]]
    /\ UNCHANGED <<weights, industry_mappings, now, pc, input, outcome, previous, heap>>

\* the handler of thread t is done with the result
Done(t) ==
    /\ threads[t].pc = 8
    /\ threads' = [threads EXCEPT ![t] = IdleThread]
    /\ UNCHANGED <<weights, industry_mappings, now, pc, input, outcome, previous, heap>>

\* the clock advances while calls are under way
Tick ==
    /\ now < MaxClock
    /\ \E t \in Threads : threads[t].pc # 0
    /\ now' = now + 1
    /\ UNCHANGED <<weights, industry_mappings, pc, input, outcome, previous, heap, threads>>

ConcNext ==
    \/ \E t \in Threads, op \in {"score", "ai_score"}, p \in 1..Len(InitHeap.profiles),
          r \in 1..Len(InitHeap.requirements) : Begin(t, op, p, r)
    \/ \E t \in Threads : Step(t)
    \/ \E t \in Threads : Finish(t)
    \/ \E t \in Threads : Done(t)
    \/ Tick

ConcSpec == Init /\ [][ConcNext]_vars

----------------------------------------------------------------------------
(* Properties of the scorers and of the extraction.  A call has completed  *)
(* in every state whose pc is not "idle"; input holds its arguments and    *)
(* outcome what it did.                                                    *)

\* a call of ReadinessScorer.calculate_suitability_score has returned
Scored1 == pc = "score" /\ outcome.kind = "returned"

\* a call of AIService.calculate_readiness_score has returned
Scored2 == pc = "ai_score" /\ outcome.kind = "returned"

\* the returned result is the error result
IsError(v) == "error" \in DOMAIN v

\* the profile object has every attribute of a CompanyProfile
Complete(p) == \A a \in Attributes : HasAttr(p, a)

\* C1: for every profile and every requirements map, the suitability_score
\* that calculate_suitability_score and calculate_readiness_score return is
\* a number from 0 to 100
C1_ScoreInRange ==
    (Scored1 \/ Scored2) => outcome.value.suitability_score \in 0..100

\* the mock company, eight years against a required two, gets the full score
C1_Witness ==
    /\ Scored1
    /\ input.requirements = GautengRequirements
    /\ outcome.value.suitability_score = 100

\* C2: calculate_suitability_score never raises; whatever the profile object
\* lacks, a failure comes back as the error result, with score 0, the
\* recommendation that no score could be calculated and confidence Low
C2_NeverRaises ==
    pc = "score" =>
        /\ outcome.kind = "returned"
        /\ IsError(outcome.value) =>
              /\ outcome.value.suitability_score = 0
              /\ outcome.value.recommendation.tier = "Unable to calculate score"
              /\ outcome.value.confidence_level = "Low"

\* the certifications are missing: absent, None, or a str that is no JSON map
BadCertifications(p) ==
    \/ p.certifications \in {Absent, None}
    \/ /\ p.certifications.t = "str"
       /\ ~(JsonLoads(p.certifications.s).ok /\ JsonLoads(p.certifications.s).v.t = "dict")

\* the regions are missing: absent, None, or a str that is no JSON list
BadCoverage(p) ==
    \/ p.geographic_coverage \in {Absent, None}
    \/ /\ p.geographic_coverage.t = "str"
       /\ ~(JsonLoads(p.geographic_coverage.s).ok
            /\ JsonLoads(p.geographic_coverage.s).v.t = "list")

\* the profile with an empty collection in the place of a missing one
WithEmptyCollections(p) ==
    [p EXCEPT !.certifications = IF BadCertifications(p) THEN PyDict(<< >>) ELSE @,
              !.geographic_coverage = IF BadCoverage(p) THEN PyList(<< >>) ELSE @]

\* the scores of two categories in a breakdown
CertAndRegionScores(breakdown) ==
    {breakdown[i] : i \in {j \in 1..Len(breakdown) :
                             breakdown[j][1] \in {"certifications", "geographic_coverage"}}}

\* C3: a profile whose certifications map or regions list is absent, None or
\* a str that is no JSON map (list) is scored as if the collection were
\* empty: the result is no error result and its certification and geographic
\* scores are those of the profile with the empty collection
C3_MissingAsEmpty ==
    (/\ pc = "score"
     /\ Complete(WithEmptyCollections(input.profile))
     /\ BadCertifications(input.profile) \/ BadCoverage(input.profile)) =>
        /\ outcome.kind = "returned"
        /\ ~IsError(outcome.value)
        /\ CertAndRegionScores(outcome.value.scoring_breakdown) =
               CertAndRegionScores(
                   calculate_suitability_score(WithEmptyCollections(input.profile),
                       input.requirements, weights, industry_mappings, now
                   ).value.scoring_breakdown)

\* the breakdown has the five categories, each with a score from 0 to 100
FiveCategories(breakdown) ==
    /\ Len(breakdown) = 5
    /\ \A i \in 1..5 :
          /\ breakdown[i][1] = Categories[i]
          /\ RatLeq(Rat(0, 1), breakdown[i][2])
          /\ RatLeq(breakdown[i][2], Rat(100, 1))

\* C4, as claimed: every result of calculate_suitability_score, the error
\* result too, carries a breakdown of exactly the five categories, each with
\* a score from 0 to 100
C4_EveryResultHasFive ==
    Scored1 => FiveCategories(outcome.value.scoring_breakdown)

\* C4: every result of calculate_suitability_score that is no error result
\* carries a breakdown of exactly the five categories, each with a score
\* from 0 to 100; the error result carries an empty breakdown
C4_BreakdownOfResults ==
    Scored1 =>
        IF IsError(outcome.value) THEN outcome.value.scoring_breakdown = << >>
        ELSE FiveCategories(outcome.value.scoring_breakdown)

\* a result whose certificate matches, with the bonus for the matching
\* level, come to more than the number of required certificates
C4_Witness ==
    /\ Scored1
    /\ ~IsError(outcome.value)
    /\ input.profile = MockCompanyProfile
    /\ input.requirements = TestRequirements
    /\ outcome.value.scoring_breakdown[1][2] = Rat(100, 1)

\* sum of score * weight (hundredths) over the breakdown, as a rational
RECURSIVE WeightedSum(_, _)
WeightedSum(breakdown, w) ==
    IF breakdown = << >> THEN Rat(0, 1)
    ELSE LET rest == WeightedSum(Tail(breakdown), w)
             score == Head(breakdown)[2]
             weight == w[Head(breakdown)[1]]
         IN  Norm([n |-> score.n * weight * rest.d + rest.n * score.d * 100,
                   d |-> score.d * 100 * rest.d])

\* k is an integer nearest to the rational x
Nearest(k, x) == 2 * (k * x.d - x.n) <= x.d /\ 2 * (x.n - k * x.d) <= x.d

\* C5: the five weights are 0.30, 0.25, 0.20, 0.15 and 0.10, they sum to 1,
\* no call changes them, and the suitability_score of a result is the sum of
\* category score * weight, rounded to a nearest integer and clamped to
\* 0..100
C5_WeightedSum ==
    /\ weights = [certifications |-> 30, experience |-> 25, geographic_coverage |-> 20,
                  sector_match |-> 15, capacity |-> 10]
    /\ weights.certifications + weights.experience + weights.geographic_coverage
           + weights.sector_match + weights.capacity = 100
    /\ (Scored1 /\ ~IsError(outcome.value)) =>
           \E k \in 0..200 :
               /\ Nearest(k, WeightedSum(outcome.value.scoring_breakdown, weights))
               /\ outcome.value.suitability_score = IF k > 100 THEN 100 ELSE k

\* a result whose weighted sum, 69.5, is no integer
C5_Witness ==
    /\ Scored1
    /\ ~IsError(outcome.value)
    /\ outcome.value.suitability_score = 70
    /\ WeightedSum(outcome.value.scoring_breakdown, weights) = Rat(139, 2)

\* the rank of a recommendation tier, 5 the best, in the words of either
\* scorer
TierRank(tier) ==
    CASE tier \in {"EXCELLENT MATCH", "Excellent match"} -> 5
      [] tier \in {"STRONG SUITABILITY", "Strong suitability"} -> 4
      [] tier \in {"MODERATE SUITABILITY", "Moderate suitability"} -> 3
      [] tier \in {"LIMITED SUITABILITY", "Limited suitability"} -> 2
      [] tier \in {"LOW SUITABILITY", "Low suitability"} -> 1
      [] OTHER -> 0

\* the rank of the tier that the five-tier mapping gives a score, x * 1/d
RankOf(x, d) ==
    IF x >= 90 * d THEN 5
    ELSE IF x >= 75 * d THEN 4
    ELSE IF x >= 60 * d THEN 3
    ELSE IF x >= 40 * d THEN 2
    ELSE 1

\* the number of checklist entries that are met
Met(checklist) == Cardinality({i \in 1..Len(checklist) : checklist[i][2]})

\* at least k percent of the checklist entries are met
MetShare(checklist, k) ==
    Len(checklist) > 0 /\ Met(checklist) * 100 >= k * Len(checklist)

\* the rank of the best tier whose threshold both the score and the share
\* of met checklist entries reach, limited and low suitability going by the
\* score alone
RankOfBoth(score, checklist) ==
    IF score >= 90 /\ MetShare(checklist, 90) THEN 5
    ELSE IF score >= 75 /\ MetShare(checklist, 75) THEN 4
    ELSE IF score >= 60 /\ MetShare(checklist, 60) THEN 3
    ELSE IF score >= 40 THEN 2
    ELSE 1

\* the weights of AIService.calculate_readiness_score, in hundredths
AIWeights ==
    [certifications |-> 30, experience |-> 25, geographic_coverage |-> 20,
     industry_match |-> 15, capacity |-> 10]

SameButTime(a, b) ==
    IF a.kind = "returned" /\ b.kind = "returned"
           /\ "calculated_at" \in DOMAIN a.value /\ "calculated_at" \in DOMAIN b.value
    THEN [a.value EXCEPT !.calculated_at = 0] = [b.value EXCEPT !.calculated_at = 0]
    ELSE a = b

\* C7, as claimed: extract_tender_requirements and calculate_suitability_score
\* are deterministic, a second call with the same arguments yielding a
\* result equal to the first in every field
C7_EqualInEveryField ==
    (pc \in {"extract", "score"} /\ previous # NoOutcome) => outcome = previous

\* C7: a second call of extract_tender_requirements with the same arguments
\* yields a result equal to the first; a second call of
\* calculate_suitability_score yields a result equal to the first in every
\* field other than calculated_at, the time of the call
C7_EqualButTime ==
    (pc \in {"extract", "score"} /\ previous # NoOutcome) =>
        IF pc = "extract" THEN outcome = previous
        ELSE SameButTime(outcome, previous)

\* the second of two scoring calls, made a clock tick after the first
C7_Witness ==
    /\ Scored1
    /\ previous # NoOutcome
    /\ ~IsError(outcome.value)
    /\ outcome.value.calculated_at # previous.value.calculated_at

\* the text is empty, white space or None
Blank(text) == text = None \/ Strip(text.s) = << >>

\* the requirements that extraction starts from
AllDefaults ==
    [required_certifications |-> << >>,
     required_provinces |-> << >>,
     min_experience |-> 0,
     industry_sector |-> <<"General", "Services">>,
     technical_requirements |-> << >>,
     financial_requirements |-> << >>,
     submission_requirements |-> << >>,
     deadline_info |-> << >>,
     budget_indication |-> << >>]

\* C8: extract_tender_requirements never raises, and for a description and a
\* title that are empty, white space or None it returns the defaults: no
\* certifications, minimum experience 0, no regions, sector General Services,
\* no technical or submission sentences, no budget and no deadline
C8_NeverRaises ==
    pc = "extract" =>
        /\ outcome.kind = "returned"
        /\ (Blank(input.description) /\ Blank(input.title)) =>
               outcome.value = AllDefaults

\* the text has the three phrases of the sample sentence
HasSamplePhrases(text) ==
    /\ text # None
    /\ StrIn(<<"cidb", "grade", "7">>, Lower(text.s))
    /\ StrIn(<<"5", "years", "experience">>, Lower(text.s))
    /\ StrIn(<<"gauteng">>, Lower(text.s))

\* C9: for a text with "CIDB Grade 7", "5 years experience" and "Gauteng",
\* such as the sample sentence, extraction yields a certification entry that
\* starts with CIDB, a minimum experience of exactly 5 years and Gauteng as
\* the only required region
C9_SampleSentence ==
    (/\ pc = "extract"
     /\ outcome.kind = "returned"
     /\ HasSamplePhrases(input.description)) =>
        /\ \E i \in 1..Len(outcome.value.required_certifications) :
              Head(outcome.value.required_certifications[i]) = "CIDB"
        /\ outcome.value.min_experience = 5
        /\ outcome.value.required_provinces = << <<"Gauteng">> >>

\* C10: a profile with eight years of experience, the certifications
\* {"CIDB": "Grade 7"} and the regions ["Gauteng"], scored against the
\* requirements extracted from the sample sentence, gets a suitability_score
\* of 75 or more and the checklist entry "Has CIDB certification" set to True
C10_GautengBuilder ==
    (/\ pc = "score"
     /\ Complete(input.profile)
     /\ input.profile.years_experience = PyInt(8)
     /\ input.profile.certifications = PyDict(<< <<(<<"CIDB">>), PyStr(<<"Grade", "7">>)>> >>)
     /\ input.profile.geographic_coverage = PyList(<< <<"Gauteng">> >>)
     /\ input.requirements = Extracted(SampleText, << >>)) =>
        /\ outcome.kind = "returned"
        /\ outcome.value.suitability_score >= 75
        /\ <<(<<"Has", "CIDB", "certification">>), TRUE>> \in
               {outcome.value.checklist[i] : i \in 1..Len(outcome.value.checklist)}

\* such a profile of another sector and with no contact, services or name
\* on record, which scores least
C10_Witness ==
    /\ Scored1
    /\ input.profile \in GautengBuilders
    /\ input.requirements = Extracted(SampleText, << >>)
    /\ outcome.value.suitability_score = 80
    /\ outcome.value.recommendation = Limited


\* a call of AIService._calculate_complexity has returned
Estimated == pc = "complexity" /\ outcome.kind = "returned"

\* the number of distinct technical terms that occur in the text
TermsPresent(text) ==
    Cardinality({term \in {technical_terms[i] : i \in 1..Len(technical_terms)} :
                    StrIn(<<term>>, Lower(text))})

\* C11: for every text that is not empty, the complexity estimate is an
\* integer from 0 to 100 and equals min(floor(50 * min(len(text) / 1000, 2)
\* + 5 * number of distinct technical terms present), 100), the arithmetic
\* being that of the real numbers
C11_ComplexityFormula ==
    (Estimated /\ Truthy(input.text)) =>
        /\ outcome.value \in 0..100
        /\ outcome.value =
               Min((50 * Min(CharLen(input.text.s), 2000)) \div 1000
                       + 5 * TermsPresent(input.text.s),
                   100)

\* C12: the empty text and a text of white space only both yield the
\* neutral complexity score 50
C12_NeutralScore ==
    (Estimated /\ input.text # None /\ Strip(input.text.s) = << >>) =>
        outcome.value = 50


\* what the call that thread th has completed returns when it runs alone,
\* with the objects and the tables as they were and the same clock
Alone(th) ==
    IF th.op = "score"
    THEN calculate_suitability_score(InitHeap.profiles[th.profile],
                                     InitHeap.requirements[th.requirements],
                                     InitWeights, InitIndustryMappings,
                                     IF th.result.kind = "returned"
                                     THEN th.result.value.calculated_at ELSE 0)
    ELSE [kind |-> "returned",
          value |-> calculate_readiness_score(InitHeap.requirements[th.requirements],
                                              InitHeap.profiles[th.profile])]

\* C13: concurrent calls on the shared scorer and analyser do not interfere:
\* in every interleaving each completed call has the result of the same
\* call run alone, and the profiles, the requirement maps, the weights and
\* the taxonomy are as they were
C13_NoInterference ==
    /\ weights = InitWeights
    /\ industry_mappings = InitIndustryMappings
    /\ heap = InitHeap
    /\ \A t \in Threads : threads[t].pc = 8 => threads[t].result = Alone(threads[t])

\* two calls on the same profile and requirements objects, one completed
\* while the other is in the middle of its categories and the clock has
\* advanced
C13_Witness ==
    /\ threads[1].pc = 8
    /\ threads[1].op = "score"
    /\ threads[1].result.kind = "returned"
    /\ threads[1].result.value.calculated_at = 1
    /\ threads[2].pc = 3
    /\ threads[2].op = "score"
    /\ threads[2].profile = threads[1].profile


\* the code of a required certificate: what stands before its colon, in
\* upper case
CodeOf(required_cert) ==
    IF StrIn(<<":">>, required_cert) THEN Upper(Strip(SplitColon(required_cert)[1]))
    ELSE Upper(required_cert)

\* some key of the certification map contains the code, whatever the case,
\* and that key's value is truthy and none of "", "false", "no" and "0"
HeldByAnyKey(items, code) ==
    \E i \in 1..Len(items) :
        /\ StrIn(Lower(code), Lower(items[i][1]))
        /\ Truthy(items[i][2])
        /\ Strip(StrOf(items[i][2])) \notin {<< >>, <<"false">>, <<"no">>, <<"0">>}

\* the certification map of a profile, empty when the profile has None
ItemsOf(certifications) == IF certifications.t = "dict" THEN certifications.items ELSE << >>

\* the number of required certificates that are held
Held(required_certs, items) ==
    Cardinality({i \in 1..Len(required_certs) : HeldByAnyKey(items, CodeOf(required_certs[i]))})

\* the value of a checklist entry, FALSE when there is no such entry
Entry(checklist, key, wanted) ==
    \E i \in 1..Len(checklist) : checklist[i] = <<key, wanted>>

\* C14: the certification score is 100 when no certificate is required;
\* otherwise a required certificate counts as held exactly if any key of the
\* company's certification map contains its code and that key's value is
\* truthy, the checklist says so, and the score is held / total * 100 plus
\* the bonus of at most half a certificate for each held one, capped at
\* 100; a profile with no certificates gets 0 against two required ones
C14_CertificationScore ==
    (/\ Scored1
     /\ ~IsError(outcome.value)
     /\ input.profile.certifications.t \in {"dict", "none"}) =>
        LET required_certs == Get(input.requirements, "required_certifications", << >>)
            items == ItemsOf(input.profile.certifications)
            score == outcome.value.scoring_breakdown[1][2]
        IN  IF required_certs = << >> THEN score = Rat(100, 1)
            ELSE /\ \A i \in 1..Len(required_certs) :
                       Entry(outcome.value.checklist,
                             <<"Has">> \o CodeOf(required_certs[i]) \o <<"certification">>,
                             HeldByAnyKey(items, CodeOf(required_certs[i])))
                 /\ RatLeq(RatMin(Rat(100 * Held(required_certs, items), Len(required_certs)),
                                  Rat(100, 1)), score)
                 /\ RatLeq(score,
                           RatMin(Rat(150 * Held(required_certs, items), Len(required_certs)),
                                  Rat(100, 1)))
                 /\ (items = << >> /\ Len(required_certs) = 2) => score = Rat(0, 1)


\* the years of experience of a profile, 0 when it has None
Years(p) == IF p.years_experience.t = "int" THEN p.years_experience.i ELSE 0

\* the steps of the partial credit for a ratio years / required below 1
Stepped(years, required) ==
    IF 10 * years >= 8 * required THEN 80
    ELSE IF 10 * years >= 6 * required THEN 60
    ELSE IF 10 * years >= 4 * required THEN 40
    ELSE 20

\* C15: the experience score of ReadinessScorer is 100 when the requirement
\* is 0 or the company's years are at least the required years, and
\* otherwise 80, 60, 40 or 20 by the ratio of the two; with the bonus for
\* more than five years above the requirement it is never more than 100
C15_ExperienceScore ==
    (Scored1 /\ ~IsError(outcome.value)) =>
        LET required == Get(input.requirements, "min_experience", 0)
            score == outcome.value.scoring_breakdown[2][2]
        IN  /\ score = Rat(IF required = 0 \/ Years(input.profile) >= required THEN 100
                           ELSE Stepped(Years(input.profile), required), 1)
            /\ RatLeq(score, Rat(100, 1))

\* four years against a required five: the ratio is 0.8 and the score 80
C15_Witness ==
    /\ Scored1
    /\ ~IsError(outcome.value)
    /\ Years(input.profile) = 4
    /\ Get(input.requirements, "min_experience", 0) = 5
    /\ outcome.value.scoring_breakdown[2] = <<"experience", Rat(80, 1)>>


\* the regions that a profile records, none when it has None
RegionsOf(p) ==
    IF p.geographic_coverage.t = "list"
    THEN {p.geographic_coverage.elems[i] : i \in 1..Len(p.geographic_coverage.elems)}
    ELSE {}

\* C16: the geographic score is 100 when no region is required, and
\* otherwise the number of required regions that are verbatim in the
\* company's coverage, divided by the number of required regions, times
\* 100; the checklist has an entry "Operates in <region>" for every
\* required region, with that membership as its value
C16_GeographicScore ==
    (/\ Scored1
     /\ ~IsError(outcome.value)
     /\ input.profile.geographic_coverage.t \in {"list", "none"}) =>
        LET required == Get(input.requirements, "required_provinces", << >>)
            score == outcome.value.scoring_breakdown[3][2]
        IN  IF required = << >> THEN score = Rat(100, 1)
            ELSE /\ score.n * Len(required) =
                        score.d * 100 * Cardinality({i \in 1..Len(required) :
                                                        required[i] \in RegionsOf(input.profile)})
                 /\ \A i \in 1..Len(required) :
                        Entry(outcome.value.checklist, <<"Operates", "in">> \o required[i],
                              required[i] \in RegionsOf(input.profile))

\* a company in one of the two required regions: the score is 50
C16_Witness ==
    /\ Scored1
    /\ ~IsError(outcome.value)
    /\ input.profile.geographic_coverage.t = "list"
    /\ Len(Get(input.requirements, "required_provinces", << >>)) = 2
    /\ outcome.value.scoring_breakdown[3] = <<"geographic_coverage", Rat(50, 1)>>
    /\ Entry(outcome.value.checklist, <<"Operates", "in", "Limpopo">>, FALSE)


\* the sector score as claimed, for the lower-cased tender sector, company
\* sector and services description
ClaimedSectorScore(tender_sector, company_sector, company_services, mappings) ==
    IF tender_sector = << >> THEN 50
    ELSE IF /\ company_sector # << >>
            /\ StrIn(tender_sector, company_sector) \/ StrIn(company_sector, tender_sector)
    THEN 100
    ELSE IF StrIn(tender_sector, company_services) THEN 80
    ELSE IF RelatedMatch(mappings, tender_sector, company_services, company_sector) THEN 70
    ELSE 30

\* C17: the sector score is 50 when the tender has no sector, 100 when the
\* tender sector and the company sector match exactly or by substring, 80
\* when the tender sector is found only in the company's services
\* description, 70 when only a related term of the taxonomy is found, and
\* 30 when nothing matches
C17_SectorScore ==
    ((Scored1 \/ Scored2) /\ ~IsError(outcome.value)) =>
        outcome.value.scoring_breakdown[4][2] =
            Rat(ClaimedSectorScore(Lower(Get(input.requirements, "industry_sector", << >>)),
                                   LowerOrEmpty(input.profile.industry_sector),
                                   LowerOrEmpty(input.profile.services_provided),
                                   industry_mappings), 1)


\* the checklists of the five category functions, in category order
CategoryChecklists(p, tender_req, mappings) ==
    << calculate_certification_score(tender_req, p).checklist,
       calculate_experience_score(tender_req, p).checklist,
       calculate_geographic_score(tender_req, p).checklist,
       calculate_sector_score(tender_req, p, mappings).checklist,
       calculate_capacity_score(p).checklist >>

\* the checklist is the union of the category checklists in category order:
\* every entry of a category is in it with its value, it has no other
\* entry and no criterion twice, and the entries of an earlier category
\* come before those of a later one
UnionInOrder(checklist, parts) ==
    /\ \A c \in 1..5 : \A i \in 1..Len(parts[c]) :
          \E k \in 1..Len(checklist) : checklist[k] = parts[c][i]
    /\ \A k \in 1..Len(checklist) :
          \E c \in 1..5 : \E i \in 1..Len(parts[c]) : parts[c][i] = checklist[k]
    /\ \A k, l \in 1..Len(checklist) : checklist[k][1] = checklist[l][1] => k = l
    /\ \A k, l \in 1..Len(checklist) : \A c, d \in 1..5 :
          (/\ c < d
           /\ \E i \in 1..Len(parts[c]) : parts[c][i] = checklist[k]
           /\ \E i \in 1..Len(parts[d]) : parts[d][i] = checklist[l]) => k < l

\* the number of checklist entries "Has <code> certification", and of
\* entries "Operates in <region>"
CertEntries(checklist) ==
    Cardinality({k \in 1..Len(checklist) :
                    /\ checklist[k][1][1] = "Has"
                    /\ checklist[k][1][Len(checklist[k][1])] = "certification"})
RegionEntries(checklist) ==
    Cardinality({k \in 1..Len(checklist) : SubSeq(checklist[k][1], 1, 2) = <<"Operates", "in">>})

SearchedText(title, description) ==
    Tokens(Lower(title.s \o OrElse(description, PyStr(<< >>)).s))

\* the first of the patterns that matches T, or 0
Winner(patterns, T) ==
    IF \E i \in 1..Len(patterns) : FindFirst(patterns[i], T).ok
    THEN CHOOSE i \in 1..Len(patterns) :
            /\ FindFirst(patterns[i], T).ok
            /\ \A j \in 1..(i - 1) : ~FindFirst(patterns[j], T).ok
    ELSE 0

\* the entry of a code whose winning pattern is pat: the code and the text
\* of the group, or the code alone when the pattern has no group
EntryOf(cert, pat, T) ==
    IF HasGroup(pat) THEN <<cert, ":">> \o FindFirst(pat, T).text ELSE <<cert>>

\* the entries of the codes of the registry that have a winning pattern, in
\* registry order
RECURSIVE EntriesOf(_, _)
EntriesOf(certs, T) ==
    IF certs = << >> THEN << >>
    ELSE (IF Winner(Head(certs)[2], T) = 0 THEN << >>
          ELSE << EntryOf(Head(certs)[1], Head(certs)[2][Winner(Head(certs)[2], T)], T) >>)
         \o EntriesOf(Tail(certs), T)

\* C19: the extracted certifications are, in registry order, one entry for
\* every code of the registry that has a matching pattern: the code, a colon
\* and the captured value when the first of its patterns that matches has a
\* group, and the code alone when that pattern has no group
C19_CertificationEntries ==
    (pc = "extract" /\ outcome.kind = "returned") =>
        outcome.value.required_certifications =
            EntriesOf(cert_patterns, SearchedText(input.title, input.description))


\* re.findall(pattern, text) of a pattern with a group of digits: the
\* numbers of all the matches, each search starting where the match before
\* it ended
RECURSIVE FindAll(_, _, _)
FindAll(pat, T, from) ==
    LET S == {i \in from..Len(T) : MatchAt(pat, 1, T, i).ok}
    IN  IF S = {} THEN {}
        ELSE {ParseInt(MatchAt(pat, 1, T, CHOOSE i \in S : \A j \in S : i <= j).cap[1])}
             \cup FindAll(pat, T, MatchAt(pat, 1, T, CHOOSE i \in S : \A j \in S : i <= j).end)

\* the numbers of all the matches of all the experience patterns
AllYears(T) == UNION {FindAll(exp_patterns[k], T, 1) : k \in 1..Len(exp_patterns)}

\* C20: the extracted minimum experience is the greatest number among all
\* the matches of all the experience patterns in the text, and 0 when no
\* pattern matches
C20_MinimumExperience ==
    (pc = "extract" /\ outcome.kind = "returned") =>
        LET years == AllYears(SearchedText(input.title, input.description)) \cup {0}
        IN  outcome.value.min_experience = CHOOSE y \in years : \A z \in years : z <= y


\* the names of the nine provinces as a company profile records them
CanonicalProvinces ==
    { <<"Gauteng">>, <<"Western", "Cape">>, <<"KwaZulu-Natal">>, <<"Eastern", "Cape">>,
      <<"Limpopo">>, <<"Mpumalanga">>, <<"North", "West">>, <<"Free", "State">>,
      <<"Northern", "Cape">> }

\* C21: the extracted regions are the provinces whose lower-cased name
\* occurs in the text, one region for each, and every extracted region is
\* one of the nine province names as a company profile records them
C21_CanonicalRegions ==
    (pc = "extract" /\ outcome.kind = "returned") =>
        LET T == SearchedText(input.title, input.description)
            regions == outcome.value.required_provinces
        IN  /\ \A c \in CanonicalProvinces :
                  StrIn(Lower(c), T) => \E i \in 1..Len(regions) : Lower(regions[i]) = Lower(c)
            /\ \A i \in 1..Len(regions) : StrIn(Lower(regions[i]), T)
            /\ \A i \in 1..Len(regions) : regions[i] \in CanonicalProvinces


\* twice the sum of 1 + 0.5 x occurrences over the keywords of a sector that
\* occur in the text
RECURSIVE KeywordScore2(_, _)
KeywordScore2(keywords, text) ==
    IF keywords = << >> THEN 0
    ELSE (IF StrIn(<<Head(keywords)>>, text) THEN 2 + Count(Head(keywords), text) ELSE 0)
         + KeywordScore2(Tail(keywords), text)

\* the first sector of the taxonomy among those whose keyword score is the
\* greatest
FirstBest(mappings, text) ==
    CHOOSE i \in 1..Len(mappings) :
        /\ \A j \in 1..Len(mappings) :
              KeywordScore2(mappings[j][2], text) <= KeywordScore2(mappings[i][2], text)
        /\ \A j \in 1..(i - 1) :
              KeywordScore2(mappings[j][2], text) < KeywordScore2(mappings[i][2], text)

\* the text that _detect_industry_sector classifies
ClassifiedText(title, description) == Lower(title.s \o SearchedText(title, description))

\* C22: the classifier returns General Services exactly when no keyword of
\* any sector occurs in the text, and otherwise the sector whose sum of
\* 1 + 0.5 x occurrences over its keywords in the text is the greatest, the
\* first of the taxonomy when several sectors have that sum
C22_SectorClassifier ==
    (pc = "extract" /\ outcome.kind = "returned") =>
        LET text == ClassifiedText(input.title, input.description)
        IN  IF \A i \in 1..Len(industry_mappings) :
                   KeywordScore2(industry_mappings[i][2], text) = 0
            THEN outcome.value.industry_sector = <<"General", "Services">>
            ELSE outcome.value.industry_sector =
                     Title(ReplaceUnderscore(industry_mappings[FirstBest(industry_mappings,
                                                                         text)][1]))


\* the sentences among the five of the highest scores that have a positive
\* score, or the first four sentences when no score is positive
Best(sentences, scores) ==
    IF \E i \in 1..Len(scores) : scores[i] > 0
    THEN {sentences[i] : i \in {j \in 1..Len(scores) :
              /\ scores[j] > 0
              /\ Cardinality({k \in 1..Len(scores) : scores[k] > scores[j]}) < 5}}
    ELSE {sentences[i] : i \in 1..Min(4, Len(sentences))}

\* the sentences at the positions P from position i on, joined in the order
\* of the document
RECURSIVE JoinAt(_, _, _)
JoinAt(sentences, P, i) ==
    IF i > Len(sentences) THEN << >>
    ELSE (IF i \in P THEN sentences[i] ELSE << >>) \o JoinAt(sentences, P, i + 1)

\* r is the join of at most four of the best sentences in the order of the
\* document, whole or cut short and ended by "..."
IsSummary(r, sentences, best) ==
    \E P \in SUBSET (1..Len(sentences)) :
        /\ Cardinality(P) <= 4
        /\ \A i \in P : sentences[i] \in best
        /\ IF r.dots
           THEN /\ Len(r.kept) < Len(JoinAt(sentences, P, 1))
                /\ SubSeq(JoinAt(sentences, P, 1), 1, Len(r.kept)) = r.kept
           ELSE r = Kept(JoinAt(sentences, P, 1), 0, FALSE)

\* the summary of a document of more than three usable sentences
SummaryOfMany(r, sentences) ==
    Len(sentences) > 3 => IsSummary(r, sentences, Best(sentences, SentenceScores(sentences, 0)))

\* C23, as claimed: for a text with more than 3 usable sentences the summary
\* is at most 4 sentences, all among the 5 of the highest positive scores
\* (or among the first 4 when no score is positive), in the order of the
\* document; the returned string is never longer than max_length + 3
\* characters; a text of fewer than 50 characters is returned unchanged
C23_SummaryOfAnyText ==
    pc = "summarize" =>
        /\ Truthy(input.text) /\ CharLen(Strip(input.text.s)) >= 50 =>
               SummaryOfMany(outcome.value, UsableSentences(Tokens(input.text.s)))
        /\ KeptLen(outcome.value) <= input.max_length + 3
        /\ CharLen(input.text.s) < 50 => outcome.value = Kept(input.text.s, 0, FALSE)

\* C23: for a text of at least 50 characters between its first and its last
\* non-blank character, the returned string is never longer than
\* max_length + 3 characters and, when the text has more than 3 usable
\* sentences, it is at most 4 sentences, all among the 5 of the highest
\* positive scores (or among the first 4 when no score is positive), in the
\* order of the document; a non-empty text of fewer than 50 such characters
\* is returned unchanged whatever max_length is, and the empty text gives
\* the message that there is no content
C23_SummaryOfLongText ==
    pc = "summarize" =>
        IF ~Truthy(input.text) THEN outcome.value = Kept(NoContent, 0, FALSE)
        ELSE IF CharLen(Strip(input.text.s)) < 50
        THEN outcome.value = Kept(input.text.s, 0, FALSE)
        ELSE /\ SummaryOfMany(outcome.value, UsableSentences(Tokens(input.text.s)))
             /\ KeptLen(outcome.value) <= input.max_length + 3

\* a summary of a document of six usable sentences that is cut short and
\* does not begin with the first sentence of the document
C23_Witness ==
    /\ pc = "summarize"
    /\ Truthy(input.text)
    /\ Len(UsableSentences(Tokens(input.text.s))) = 6
    /\ outcome.value.dots
    /\ outcome.value.kept # << >>
    /\ outcome.value.kept[1] # input.text.s[1]


\* C24: in a result of ReadinessScorer the certification score is below 100
\* whenever the checklist has an entry "Has <code> certification" that is
\* False
C24_FullOnlyIfAllHeld ==
    (Scored1 /\ ~IsError(outcome.value)) =>
        ((\E k \in 1..Len(outcome.value.checklist) :
              /\ outcome.value.checklist[k][1][1] = "Has"
              /\ outcome.value.checklist[k][1][Len(outcome.value.checklist[k][1])] = "certification"
              /\ outcome.value.checklist[k][2] = FALSE)
         => /\ outcome.value.scoring_breakdown[1][1] = "certifications"
            /\ outcome.value.scoring_breakdown[1][2] # Rat(100, 1)
            /\ RatLeq(outcome.value.scoring_breakdown[1][2], Rat(100, 1)))


\* C25: in a result of AIService.calculate_readiness_score the tier of the
\* recommendation is the tier of the suitability_score of the same result:
\* excellent from 90, strong from 75, moderate from 60, limited from 40
C25_TierOfReturnedScore ==
    (Scored2 /\ ~IsError(outcome.value)) =>
        /\ outcome.value.suitability_score >= 90 =>
               outcome.value.recommendation.tier = "Excellent match"
        /\ (outcome.value.suitability_score >= 75 /\ outcome.value.suitability_score < 90) =>
               outcome.value.recommendation.tier = "Strong suitability"
        /\ (outcome.value.suitability_score >= 60 /\ outcome.value.suitability_score < 75) =>
               outcome.value.recommendation.tier = "Moderate suitability"
        /\ (outcome.value.suitability_score >= 40 /\ outcome.value.suitability_score < 60) =>
               outcome.value.recommendation.tier = "Limited suitability"


\* C26: a company whose industry_sector is empty or None and whose services
\* description does not contain the sector of the tender gets neither the
\* sector score 100 nor a checklist entry "Industry matches <sector>" that
\* is True
C26_NoSectorNoDirectMatch ==
    ((Scored1 \/ Scored2)
     /\ ~IsError(outcome.value)
     /\ Get(input.requirements, "industry_sector", << >>) # << >>
     /\ LowerOrEmpty(input.profile.industry_sector) = << >>
     /\ ~StrIn(Lower(Get(input.requirements, "industry_sector", << >>)),
               LowerOrEmpty(input.profile.services_provided))) =>
        /\ outcome.value.scoring_breakdown[4][2] # Rat(100, 1)
        /\ \A k \in 1..Len(outcome.value.checklist) :
              SubSeq(outcome.value.checklist[k][1], 1, 2) = <<"Industry", "matches">> =>
                  outcome.value.checklist[k][2] = FALSE


\* the label that the extractor emits for the sector of entry i of the mappings
SectorLabel(mappings, i) == Title(ReplaceUnderscore(mappings[i][1]))

\* C27: for every sector label that the extractor emits, a company without a
\* direct sector match whose sector or services contain a related term of
\* that sector gets the sector score 70
C27_RelatedTermScore ==
    (Scored1 /\ ~IsError(outcome.value)) =>
        LET tender_sector == Lower(Get(input.requirements, "industry_sector", << >>))
            company_sector == LowerOrEmpty(input.profile.industry_sector)
            company_services == LowerOrEmpty(input.profile.services_provided)
        IN  \A i \in 1..Len(industry_mappings) :
                (/\ Get(input.requirements, "industry_sector", << >>)
                        = SectorLabel(industry_mappings, i)
                 /\ ~StrIn(tender_sector, company_sector)
                 /\ ~StrIn(company_sector, tender_sector)
                 /\ ~StrIn(tender_sector, company_services)
                 /\ \E j \in 1..Len(industry_mappings[i][2]) :
                       \/ StrIn(<<industry_mappings[i][2][j]>>, company_services)
                       \/ StrIn(<<industry_mappings[i][2][j]>>, company_sector)) =>
                    outcome.value.scoring_breakdown[4][2] = Rat(70, 1)


\* the profile with years of experience and nothing else changed
WithYears(profile, years) == [profile EXCEPT !.years_experience = years]

\* what the scorer returns, in the current state, for the profile of the
\* call with years of experience
ScoreWithYears(years) ==
    calculate_suitability_score(WithYears(input.profile, years), input.requirements,
                                weights, industry_mappings, now)

\* C28: with the requirements and every other field of the profile fixed, a
\* profile with more years_experience (None counts as no years) gets an
\* experience score and a suitability_score that are not lower
C28_MonotoneInExperience ==
    (Scored1 /\ ~IsError(outcome.value) /\ input.profile.years_experience \in YearsValues) =>
        \A years \in YearsValues :
            YearsOf(WithYears(input.profile, years)) > YearsOf(input.profile) =>
                LET more == ScoreWithYears(years)
                IN  /\ more.kind = "returned"
                    /\ ~IsError(more.value)
                    /\ RatLeq(outcome.value.scoring_breakdown[2][2],
                              more.value.scoring_breakdown[2][2])
                    /\ outcome.value.suitability_score <= more.value.suitability_score

\* a company with two of the five years asked for has been scored, and with
\* five years its experience score and its suitability_score are higher
C28_Witness ==
    /\ Scored1 /\ ~IsError(outcome.value)
    /\ input.profile.years_experience = PyInt(2)
    /\ Get(input.requirements, "min_experience", 0) = 5
    /\ outcome.value.scoring_breakdown[2][2] = Rat(40, 1)
    /\ ScoreWithYears(PyInt(5)).value.scoring_breakdown[2][2] = Rat(100, 1)
    /\ outcome.value.suitability_score < ScoreWithYears(PyInt(5)).value.suitability_score


\* C29: a result of calculate_suitability_score that is not the error result
\* has a checklist that is not empty and has a boolean for every entry, its
\* confidence_level is High when its suitability_score is above 70 and
\* Medium otherwise; the error result is the only one with Low
C29_ConfidenceLevel ==
    Scored1 =>
        LET result == outcome.value
        IN  IF IsError(result) THEN result.confidence_level = "Low"
            ELSE /\ result.checklist # << >>
                 /\ \A k \in 1..Len(result.checklist) : result.checklist[k][2] \in BOOLEAN
                 /\ result.confidence_level =
                        IF result.suitability_score > 70 THEN "High" ELSE "Medium"

\* a result with the score 70, the highest score below High, has been
\* returned with the confidence_level Medium
C29_Witness ==
    /\ Scored1 /\ ~IsError(outcome.value)
    /\ outcome.value.suitability_score = 70
    /\ outcome.value.confidence_level = "Medium"
    /\ Len(outcome.value.checklist) > 4


\* what AIService.calculate_readiness_score returns for the requirements and
\* the company data of the call of the scorer
AIResult == calculate_readiness_score(input.requirements, input.profile)

\* the company of the call has fewer years than the map asks for
TooFewYears ==
    /\ "min_experience" \in DOMAIN input.requirements
    /\ HasAttr(input.profile, "years_experience")
    /\ input.profile.years_experience.t = "int"
    /\ input.profile.years_experience.i < input.requirements.min_experience

\* the map asks for a province that the company's list does not have
ProvinceNotCovered ==
    /\ "required_provinces" \in DOMAIN input.requirements
    /\ HasAttr(input.profile, "geographic_coverage")
    /\ input.profile.geographic_coverage.t = "list"
    /\ \E k \in 1..Len(input.requirements.required_provinces) :
          \A c \in 1..Len(input.profile.geographic_coverage.elems) :
              input.profile.geographic_coverage.elems[c] # input.requirements.required_provinces[k]

\* C30: ReadinessScorer.calculate_suitability_score and
\* AIService.calculate_readiness_score return the same suitability_score for
\* the same requirements map and the same company data, and the experience
\* and the provinces that the map asks for lower the experience score and
\* the geographic score of both when the company falls short of them
C30_ScorersAgree ==
    pc = "score" =>
        /\ outcome.kind = "returned"
        /\ outcome.value.suitability_score = AIResult.suitability_score
        /\ (~IsError(outcome.value) /\ ~IsError(AIResult) /\ TooFewYears) =>
              /\ outcome.value.scoring_breakdown[2][2] # Rat(100, 1)
              /\ AIResult.scoring_breakdown[2][2] # Rat(100, 1)
        /\ (~IsError(outcome.value) /\ ~IsError(AIResult) /\ ProvinceNotCovered) =>
              /\ outcome.value.scoring_breakdown[3][2] # Rat(100, 1)
              /\ AIResult.scoring_breakdown[3][2] # Rat(100, 1)

====
